---- MODULE Spec2Model ----
(***************************************************************************)
(* A model of the AutoTerra generation pipeline (backend/rag_pipeline.py,  *)
(* backend/main.py): the VariableTracker, the generator retry loop, the     *)
(* validator agents and the reflection/QA loop.                             *)
(*                                                                          *)
(* Text is modelled as a sequence of tokens.  A token is one character of   *)
(* the text ("a", "1", the newline) or one of the words the code searches   *)
(* for ("resource", "note:", the fence).  Substring containment, splitting  *)
(* into lines and stripping are computed on these sequences.                *)
(***************************************************************************)
EXTENDS Integers, Sequences, FiniteSets, TLC

----------------------------------------------------------------------------
(* Bounds of the model *)

\* longest code text (in tokens) handed to the tracker by a direct caller
MaxCodeLen == 2
\* most lines in one reply of the text generation service
MaxReplyLines == 2
\* most entries a key's locations list may hold before a further check is cut off
MaxLocs == 2
\* most calls made in a row on one RAGSystem instance
MaxSessions == 2

----------------------------------------------------------------------------
(* Text *)

NL == "\n"

Whitespace == {NL, " "}

\* Python: s in t
IsSubstr(s, t) ==
    \E i \in 0..(Len(t) - Len(s)) : SubSeq(t, i + 1, i + Len(s)) = s

RECURSIVE SplitLines(_)
\* Python: text.split('\n')
SplitLines(t) ==
    IF \A i \in 1..Len(t) : t[i] # NL
    THEN <<t>>
    ELSE LET i == CHOOSE j \in 1..Len(t) :
                      t[j] = NL /\ \A m \in 1..(j - 1) : t[m] # NL
         IN <<SubSeq(t, 1, i - 1)>> \o SplitLines(SubSeq(t, i + 1, Len(t)))

RECURSIVE JoinLines(_)
\* Python: '\n'.join(lines)
JoinLines(ls) ==
    IF ls = <<>> THEN <<>>
    ELSE IF Len(ls) = 1 THEN ls[1]
    ELSE ls[1] \o <<NL>> \o JoinLines(Tail(ls))

RECURSIVE LStrip(_)
LStrip(t) ==
    IF t # <<>> /\ Head(t) \in Whitespace THEN LStrip(Tail(t)) ELSE t

RECURSIVE RStrip(_)
RStrip(t) ==
    IF t # <<>> /\ t[Len(t)] \in Whitespace
    THEN RStrip(SubSeq(t, 1, Len(t) - 1)) ELSE t

\* Python: text.strip()
Strip(t) == RStrip(LStrip(t))

\* A configuration value: a string (token sequence) or an integer.
StrVal(s) == [tag |-> "str", n |-> 0, s |-> s]
IntVal(n) == [tag |-> "int", n |-> n, s |-> <<>>]

Digit(d) == CASE d = 0 -> "0" [] d = 1 -> "1" [] d = 2 -> "2" [] d = 3 -> "3"
              [] d = 4 -> "4" [] d = 5 -> "5" [] d = 6 -> "6" [] d = 7 -> "7"
              [] d = 8 -> "8" [] d = 9 -> "9"

RECURSIVE Digits(_)
Digits(n) == IF n < 10 THEN <<Digit(n)>> ELSE Digits(n \div 10) \o <<Digit(n % 10)>>

\* Python: str(value)
PyStr(v) ==
    IF v.tag = "int"
    THEN (IF v.n < 0 THEN <<"-">> \o Digits(0 - v.n) ELSE Digits(v.n))
    ELSE v.s

----------------------------------------------------------------------------
(* Ordered dictionaries: a sequence of entries with distinct keys, in       *)
(* insertion order, as Python's dict.                                        *)

DictKeys(d) == {d[i].key : i \in 1..Len(d)}

DictHas(d, k) == \E i \in 1..Len(d) : d[i].key = k

DictGet(d, k) == d[CHOOSE i \in 1..Len(d) : d[i].key = k]

\* d[k] = e : in place when k is present, appended otherwise
DictPut(d, e) ==
    IF DictHas(d, e.key)
    THEN [i \in 1..Len(d) |-> IF d[i].key = e.key THEN e ELSE d[i]]
    ELSE Append(d, e)

----------------------------------------------------------------------------
(* VariableTracker *)

\* VariableTracker.__init__.  The second dictionary of the class, self.variables, is
\* written by add_variables and read by nothing, and is left out of the state.
NewTracker == [variable_usage_map |-> <<>>]

FreshEntry(kv) == [key |-> kv.key, value |-> kv.value, used |-> FALSE, locations |-> <<>>]

RECURSIVE AddToUsageMap(_, _)
AddToUsageMap(m, vars) ==
    IF vars = <<>> THEN m
    ELSE AddToUsageMap(DictPut(m, FreshEntry(Head(vars))), Tail(vars))

\* add_variables that starts from an empty map
add_variables_replacing(trk, vars) ==
    [variable_usage_map |-> AddToUsageMap(<<>>, vars)]

\* VariableTracker.add_variables
add_variables(trk, vars) ==
    [variable_usage_map |-> AddToUsageMap(trk.variable_usage_map, vars)]

\* LinesWith counting the lines from 0
LinesWithFromZero(val, lines, i) ==
    LET hits == {j \in i..Len(lines) : IsSubstr(val, lines[j])}
        nth[n \in 1..Cardinality(hits)] ==
            CHOOSE j \in hits : Cardinality({h \in hits : h < j}) = n - 1
    IN [n \in 1..Cardinality(hits) |-> nth[n] - 1]

RECURSIVE LinesWith(_, _, _)
\* the 1-indexed numbers of the lines that contain val, ascending
LinesWith(val, lines, i) ==
    IF i > Len(lines) THEN <<>>
    ELSE (IF IsSubstr(val, lines[i]) THEN <<i>> ELSE <<>>) \o LinesWith(val, lines, i + 1)

\* CheckEntry without its else branch: the flag of a value that is absent keeps its old state
CheckEntryKeepsFlag(e, code) ==
    IF IsSubstr(PyStr(e.value), code)
    THEN [e EXCEPT !.used = TRUE,
                   !.locations = e.locations \o LinesWith(PyStr(e.value), SplitLines(code), 1)]
    ELSE e

\* the body of the loop of check_usage_in_code, for one entry
CheckEntry(e, code) ==
    IF IsSubstr(PyStr(e.value), code)
    THEN [e EXCEPT !.used = TRUE,
                   !.locations = e.locations \o LinesWith(PyStr(e.value), SplitLines(code), 1)]
    ELSE [e EXCEPT !.used = FALSE]

CheckUsageMap(m, code) == [i \in 1..Len(m) |-> CheckEntry(m[i], code)]

RECURSIVE UsedListNew(_, _)
\* UsedList that passes over the keys already marked used
UsedListNew(m, code) ==
    IF m = <<>> THEN <<>>
    ELSE (IF IsSubstr(PyStr(Head(m).value), code) /\ ~Head(m).used
          THEN <<Head(m).key>> ELSE <<>>)
         \o UsedListNew(Tail(m), code)

RECURSIVE UsedList(_, _)
UsedList(m, code) ==
    IF m = <<>> THEN <<>>
    ELSE (IF IsSubstr(PyStr(Head(m).value), code) THEN <<Head(m).key>> ELSE <<>>)
         \o UsedList(Tail(m), code)

RECURSIVE UnusedList(_, _)
UnusedList(m, code) ==
    IF m = <<>> THEN <<>>
    ELSE (IF IsSubstr(PyStr(Head(m).value), code) THEN <<>> ELSE <<Head(m).key>>)
         \o UnusedList(Tail(m), code)

\* VariableTracker.check_usage_in_code: the tracker afterwards and the two lists returned
check_usage_in_code(trk, code) ==
    [tracker |-> [trk EXCEPT !.variable_usage_map = CheckUsageMap(trk.variable_usage_map, code)],
     used |-> UsedList(trk.variable_usage_map, code),
     unused |-> UnusedList(trk.variable_usage_map, code)]

RECURSIVE UnusedOf(_)
\* VariableTracker.get_unused_variables
UnusedOf(m) ==
    IF m = <<>> THEN <<>>
    ELSE (IF Head(m).used THEN <<>> ELSE <<[key |-> Head(m).key, value |-> Head(m).value]>>)
         \o UnusedOf(Tail(m))

get_unused_variables(trk) == UnusedOf(trk.variable_usage_map)

Range(s) == {s[i] : i \in 1..Len(s)}

\* all sequences over S of length at most n
SeqsUpTo(S, n) == UNION {[1..m -> S] : m \in 0..n}

----------------------------------------------------------------------------
(* Inputs *)

Keys == {"k1", "k2"}

\* the values a caller supplies: strings, a string spanning a line break, an integer
Values == {StrVal(<<"a">>), StrVal(<<"a", NL>>), IntVal(1)}

\* the variable maps: ordered dictionaries over Keys
VarMaps ==
    {d \in SeqsUpTo([key : Keys, value : Values], Cardinality(Keys)) :
        \A i, j \in 1..Len(d) : i # j => d[i].key # d[j].key}

\* the code texts a direct caller of the tracker passes
CodeTokens == {"a", "1", NL}

CodeTexts == SeqsUpTo(CodeTokens, MaxCodeLen)

----------------------------------------------------------------------------
(* Post-processing of the replies of the text generation service *)

\* the token of a code fence: three backquotes
Fence == "[fence]"

FenceLangs == {"hcl", "terraform", "tf"}

TerraformKeywords ==
    {"resource", "variable", "output", "data", "locals", "terraform", "provider"}

ProseWords ==
    {"here is", "this code", "explanation:", "note:", "this will", "the above",
     "this terraform"}

CommentMarks == {"#", "//"}

\* Python: token.lower(), for the capitalised words of the replies
Lower(tok) ==
    CASE tok = "Note:" -> "note:" [] tok = "Here is" -> "here is"
      [] tok = "Password" -> "password" [] OTHER -> tok

RECURSIVE RemoveFences(_)
\* re.sub of a fence, an optional language name and an optional newline, everywhere
RemoveFences(t) ==
    IF t = <<>> THEN <<>>
    ELSE IF Head(t) = Fence
    THEN LET r1 == Tail(t)
             r2 == IF r1 # <<>> /\ Head(r1) \in FenceLangs THEN Tail(r1) ELSE r1
             r3 == IF r2 # <<>> /\ Head(r2) = NL THEN Tail(r2) ELSE r2
         IN RemoveFences(r3)
    ELSE <<Head(t)>> \o RemoveFences(Tail(t))

\* re.sub of a fence and an optional newline at the end of the text
RemoveTrailingFence(t) ==
    IF t # <<>> /\ t[Len(t)] = Fence THEN SubSeq(t, 1, Len(t) - 1)
    ELSE IF Len(t) >= 2 /\ t[Len(t)] = NL /\ t[Len(t) - 1] = Fence
    THEN SubSeq(t, 1, Len(t) - 2)
    ELSE t

RECURSIVE RemoveBareFences(_)
\* re.sub of a fence and an optional newline, everywhere
RemoveBareFences(t) ==
    IF t = <<>> THEN <<>>
    ELSE IF Head(t) = Fence
    THEN LET r1 == Tail(t)
         IN RemoveBareFences(IF r1 # <<>> /\ Head(r1) = NL THEN Tail(r1) ELSE r1)
    ELSE <<Head(t)>> \o RemoveBareFences(Tail(t))

HasKeyword(line) == \E i \in 1..Len(line) : line[i] \in TerraformKeywords

HasProse(line) == \E i \in 1..Len(line) : Lower(line[i]) \in ProseWords

IsComment(line) == line # <<>> /\ Head(line) \in CommentMarks

RECURSIVE FilterLines(_, _)
\* the loop of extract_terraform_code over the lines
FilterLines(lines, in_terraform_block) ==
    IF lines = <<>> THEN <<>>
    ELSE LET line == Head(lines)
             stripped == Strip(line)
             blk == in_terraform_block \/ HasKeyword(stripped)
             keep == blk /\ (\/ IsComment(stripped)
                             \/ (stripped # <<>> /\ ~HasProse(stripped))
                             \/ stripped = <<>>)
         IN (IF keep THEN <<line>> ELSE <<>>) \o FilterLines(Tail(lines), blk)

\* MultiAgentGeneration.extract_terraform_code
extract_terraform_code(response_text) ==
    Strip(JoinLines(FilterLines(
        SplitLines(RemoveTrailingFence(RemoveFences(response_text))), FALSE)))

\* the post-processing at the end of ReflectionQA.iterative_refinement
refined_code_of(response_text) == Strip(RemoveBareFences(RemoveFences(response_text)))

\* the lines the text generation service puts into its replies
ReplyLines == {<<"resource", "a">>, <<"1">>, <<"Note:", "1">>, <<Fence, "hcl">>}

\* the replies to a prompt that asks for code
CodeReplies == {JoinLines(ls) : ls \in SeqsUpTo(ReplyLines, MaxReplyLines)}

\* the variable maps of the generation sessions
SessionValues == {StrVal(<<"a">>), IntVal(1)}

SessionMaps ==
    {d \in SeqsUpTo([key : Keys, value : SessionValues], Cardinality(Keys)) :
        \A i, j \in 1..Len(d) : i # j => d[i].key # d[j].key}

\* the variables maps of the reflection and pipeline runs: none, a string, an integer, both
RequestMaps ==
    {<<>>,
     <<[key |-> "k1", value |-> StrVal(<<"a">>)]>>,
     <<[key |-> "k2", value |-> IntVal(1)]>>,
     <<[key |-> "k1", value |-> StrVal(<<"a">>)], [key |-> "k2", value |-> IntVal(1)]>>}

----------------------------------------------------------------------------
VARIABLES
    vt,          \* a VariableTracker driven directly by its caller
    vt_op,       \* the last operation run on vt
    vt_code,     \* the code given to the last check_usage_in_code
    vt_ret,      \* what the last check_usage_in_code returned: [used, unused]
    vt_arg,      \* the map given to the last add_variables
    agents_tracker,      \* MultiAgentGeneration.variable_tracker, one per RAGSystem
    sessions,            \* calls started on the RAGSystem instance so far
    mode,                \* the entry point of the call in progress
    pc,                  \* where the call in progress stands
    variables,           \* the variables map of the call in progress
    gen,                 \* locals of generator_agent
    validation_results,  \* the results of the three validator agents
    refl,                \* locals of reflection_qa_pipeline
    result,              \* what the call returned to its caller
    error,               \* the exception the call raised, "none" when none
    obs,                 \* observations of the call: calls made, prompts sent, candidates seen
    validator,           \* the LLMInputValidator of the RAGSystem: [issues]
    correction,          \* validate_and_correct: its arguments, its reply and its CorrectionResult
    rerank,              \* rerank_and_validate: its argument, the relevance reply and the
                         \* values of "results" after each of its three steps
    retrieval,           \* multi_strategy_retrieve: the responses of the index and the results
    sandbox              \* test_terraform_code: its arguments, its locals, the commands run
                         \* in the sandbox directory and the TestResult

trackerVars == <<vt, vt_op, vt_code, vt_ret, vt_arg>>

stageVars == <<validator, correction, rerank, retrieval, sandbox>>

callVars ==
    <<agents_tracker, sessions, mode, pc, variables, gen, validation_results, refl,
      result, error, obs, stageVars>>

vars == <<trackerVars, callVars>>

NoReturn == [used |-> <<>>, unused |-> <<>>]

\* no call in progress: the state of a RAGSystem right after construction
NoGen == [max_attempts |-> 0, attempt |-> 0, terraform_code |-> <<>>, unused_vars |-> <<>>]

NoResult == [is_valid |-> FALSE, issues |-> <<>>, suggestions |-> <<>>, score |-> 0, set |-> FALSE]

NoResults == [validator |-> NoResult, security |-> NoResult, cost_optimizer |-> NoResult]

NoCritique ==
    [parsed |-> FALSE, overall_quality |-> 0, has_quality |-> FALSE,
     must_fix |-> <<>>, has_must_fix |-> FALSE, all_variables_used |-> FALSE, set |-> FALSE]

NoRefl ==
    [max_iterations |-> 0, iteration |-> 0, current_code |-> <<>>, unused_vars |-> <<>>,
     critique |-> NoCritique]

NoReturnValue ==
    [set |-> FALSE, terraform_code |-> <<>>, used_variables |-> <<>>,
     unused_variables |-> <<>>]

\* LLMInputValidator.__init__
NewValidator == [issues |-> <<>>]

\* no call of validate_and_correct made yet
NoCorrection ==
    [set |-> FALSE, variables |-> <<>>, resource_type |-> "none", llm_calls |-> 0,
     reply |-> [kind |-> "none", has_corrected |-> FALSE, corrected_variables |-> <<>>,
                fields |-> <<>>],
     corrected_variables |-> <<>>, issues |-> <<>>, auto_corrected |-> <<>>,
     needs_confirmation |-> <<>>]

\* no call of rerank_and_validate made yet
NoRerank ==
    [input |-> <<>>, reply |-> [kind |-> "none", scores_kind |-> "absent", scores |-> <<>>],
     scored |-> <<>>, validated |-> <<>>, selected |-> <<>>, objects |-> <<>>]

\* no call of multi_strategy_retrieve made yet
NoRetrieval == [responses |-> <<>>, failed |-> "none", results |-> <<>>]

\* a ValidationResult of the sandbox before validate_terraform has produced one
NoValidation ==
    [set |-> FALSE, valid |-> FALSE, format_valid |-> FALSE, init_success |-> FALSE,
     errors |-> <<>>, warnings |-> <<>>]

\* no TestResult returned
NoTestResult ==
    [set |-> FALSE, status |-> "none", validation |-> NoValidation, security_scans |-> <<>>,
     plan_output |-> "None", overall_passed |-> FALSE]

\* no call of test_terraform_code made yet
NoSandbox ==
    [run_security_scan |-> FALSE, generate_plan |-> FALSE, exists |-> FALSE,
     commands |-> <<>>, validation |-> NoValidation, security_scans |-> <<>>,
     plan_output |-> "None", raised |-> "none", result |-> NoTestResult]

NoPrompt == [set |-> FALSE, code |-> <<>>, missing |-> <<>>]

NoObs ==
    [gen_calls |-> 0, fix_calls |-> 0, critique_calls |-> 0, refine_calls |-> 0,
     exit |-> "none", best_unused |-> -1, checked |-> <<>>, checks |-> 0,
     fix_prompt |-> NoPrompt, fix_code |-> <<>>, after_fix |-> FALSE,
     validator_unused |-> <<>>, converged |-> FALSE]

CallIdle ==
    /\ agents_tracker = NewTracker
    /\ sessions = 0
    /\ mode = "none"
    /\ pc = "idle"
    /\ variables = <<>>
    /\ gen = NoGen
    /\ validation_results = NoResults
    /\ refl = NoRefl
    /\ result = NoReturnValue
    /\ error = "none"
    /\ obs = NoObs
    /\ validator = NewValidator
    /\ correction = NoCorrection
    /\ rerank = NoRerank
    /\ retrieval = NoRetrieval
    /\ sandbox = NoSandbox

TrackerInit ==
    /\ CallIdle
    /\ vt = NewTracker
    /\ vt_op = "new"
    /\ vt_code = <<>>
    /\ vt_arg = <<>>
    /\ vt_ret = NoReturn

\* tracker.add_variables(d)
TrackerAdd(d) ==
    /\ UNCHANGED callVars
    /\ vt' = add_variables(vt, d)
    /\ vt_op' = "add"
    /\ vt_code' = <<>>
    /\ vt_arg' = d
    /\ vt_ret' = NoReturn

\* tracker.check_usage_in_code(code); cut off once a locations list is MaxLocs long
TrackerCheck(code) ==
    /\ UNCHANGED callVars
    /\ \A i \in 1..Len(vt.variable_usage_map) :
           Len(vt.variable_usage_map[i].locations) < MaxLocs
    /\ LET r == check_usage_in_code(vt, code)
       IN /\ vt' = r.tracker
          /\ vt_ret' = [used |-> r.used, unused |-> r.unused]
    /\ vt_op' = "check"
    /\ vt_code' = code
    /\ vt_arg' = <<>>

\* tracker.variable_usage_map = {} followed by add_variables(d), as the reflection loop does
TrackerReset(d) ==
    /\ UNCHANGED callVars
    /\ vt' = add_variables([vt EXCEPT !.variable_usage_map = <<>>], d)
    /\ vt_op' = "reset"
    /\ vt_code' = <<>>
    /\ vt_arg' = d
    /\ vt_ret' = NoReturn

TrackerNext ==
    \/ \E d \in VarMaps : TrackerAdd(d)
    \/ \E c \in CodeTexts : TrackerCheck(c)
    \/ \E d \in VarMaps : TrackerReset(d)

SpecTracker == TrackerInit /\ [][TrackerNext]_vars

----------------------------------------------------------------------------
(* Replies of the text generation service to the prompts that ask for JSON *)

\* an issue or must-fix item: found by the tracker for a variable, or written by the service
Item(kind, var, value) == [kind |-> kind, var |-> var, value |-> value]

LlmItem == Item("llm", "", StrVal(<<>>))

\* a reply in which re.search finds no JSON object, or json.loads fails
Unparseable ==
    [parsed |-> FALSE, has_is_valid |-> FALSE, is_valid |-> FALSE, has_issues |-> FALSE,
     issues |-> <<>>, has_score |-> FALSE, score |-> 0]

\* the replies to the prompts of the three validator agents, scores in hundredths
AgentReplies ==
    {Unparseable} \cup
    {r \in [parsed : {TRUE}, has_is_valid : BOOLEAN, is_valid : BOOLEAN,
            has_issues : BOOLEAN, issues : {<<>>, <<LlmItem>>},
            has_score : BOOLEAN, score : {0, 20, 95}] :
        /\ (~r.has_is_valid => ~r.is_valid)
        /\ (~r.has_issues => r.issues = <<>>)
        /\ (r.has_score <=> r.score # 0)}

\* the replies taken for the security and cost agents: unparseable, or a failing verdict
OtherAgentReplies ==
    {r \in AgentReplies :
        r.parsed => (r.has_is_valid /\ ~r.is_valid /\ r.issues # <<>> /\ r.score = 20)}

UnparseableCritique ==
    [parsed |-> FALSE, has_quality |-> FALSE, overall_quality |-> 0,
     has_must_fix |-> FALSE, must_fix |-> <<>>, all_variables_used |-> FALSE]

\* the replies to the critique prompt, overall_quality in hundredths
CritiqueReplies ==
    {UnparseableCritique} \cup
    {r \in [parsed : {TRUE}, has_quality : BOOLEAN, overall_quality : {0, 84, 85, 90},
            has_must_fix : BOOLEAN, must_fix : {<<>>, <<LlmItem>>},
            all_variables_used : BOOLEAN] :
        /\ (r.has_quality <=> r.overall_quality # 0)
        /\ (~r.has_must_fix => r.must_fix = <<>>)}

----------------------------------------------------------------------------
(* generator_agent *)

\* max_attempts of generate_with_agents' call of generator_agent, and its default
DefaultMaxAttempts == 3

\* the values of max_attempts a direct caller passes
AttemptArgs == 0..DefaultMaxAttempts

\* "if not unused_vars": the candidate passes the check
AllIncorporated(unused) == unused = <<>>

\* FixFollows with the bound off by one: a fix prompt follows the last pass too
FixFollowsLastPass(attempt, max_attempts) == attempt < max_attempts

\* "if attempt < max_attempts - 1": a fix prompt follows a failed candidate
FixFollows(attempt, max_attempts) == attempt < max_attempts - 1

\* variables[var] for every var of the list: a KeyError when one is not a key of the map
LookupFails(unused, d) == \E i \in 1..Len(unused) : ~DictHas(d, unused[i])

\* the key/value pairs named by the fix prompt
MissingPairs(unused, d) ==
    [i \in 1..Len(unused) |-> [key |-> unused[i], value |-> DictGet(d, unused[i]).value]]

UnusedCount(code) == Len(UnusedList(agents_tracker.variable_usage_map, code))

Min(a, b) == IF a <= b THEN a ELSE b

\* the fewest unused variables among the candidates seen so far, with one more
SeenCandidate(o, code) ==
    IF o.best_unused < 0 THEN UnusedCount(code) ELSE Min(o.best_unused, UnusedCount(code))

Terminal ==
    \/ pc \in {"idle", "done", "raised"}
    \/ pc = "gen_returned" /\ mode = "generator_agent"
    \/ pc = "agents_returned" /\ mode = "generate_with_agents"
    \/ pc = "reflected" /\ mode = "reflection_qa_pipeline"
    \/ pc = "validated" /\ mode = "validate_and_correct"
    \/ pc = "reranked" /\ mode = "rerank_and_validate"

\* a new call on the RAGSystem, once the one before has returned or raised
StartCall ==
    /\ Terminal
    /\ sessions < MaxSessions
    /\ sessions' = sessions + 1

\* generator_agent from its entry to its first call of the text generation service
GeneratorEntry(d, m) ==
    /\ agents_tracker' = add_variables(agents_tracker, d)
    /\ variables' = d
    /\ gen' = [NoGen EXCEPT !.max_attempts = m]
    /\ validation_results' = NoResults
    /\ refl' = NoRefl
    /\ result' = NoReturnValue
    /\ obs' = NoObs
    /\ IF m = 0
       THEN \* the loop body never runs and line 714 reads terraform_code unassigned
            pc' = "raised" /\ error' = "UnboundLocalError"
       ELSE pc' = "gen_attempt" /\ error' = "none"

\* a call that starts with generator_agent
EnterGenerator(d, m) ==
    /\ StartCall
    /\ GeneratorEntry(d, m)
    /\ UNCHANGED <<trackerVars, stageVars>>

\* a direct call generator_agent(query, context, d, max_attempts = m)
CallGeneratorAgent(d, m) ==
    /\ mode' = "generator_agent"
    /\ EnterGenerator(d, m)

\* a direct call generate_with_agents(query, context, d)
CallGenerateWithAgents(d) ==
    /\ mode' = "generate_with_agents"
    /\ EnterGenerator(d, DefaultMaxAttempts)

\* one pass of the loop: the generation call, the extraction and the check
Generate(reply) ==
    /\ pc = "gen_attempt"
    /\ LET code == extract_terraform_code(reply)
           r == check_usage_in_code(agents_tracker, code)
           o == [obs EXCEPT !.gen_calls = @ + 1, !.checked = code, !.checks = @ + 1,
                            !.best_unused = SeenCandidate(obs, code),
                            !.after_fix = (gen.attempt > 0)]
           g == [gen EXCEPT !.terraform_code = code, !.unused_vars = r.unused]
       IN IF AllIncorporated(r.unused)
          THEN /\ pc' = "gen_returned"
               /\ error' = "none"
               /\ agents_tracker' = r.tracker
               /\ gen' = g
               /\ obs' = [o EXCEPT !.exit = "early"]
          ELSE IF FixFollows(gen.attempt, gen.max_attempts)
          THEN IF LookupFails(r.unused, variables)
               THEN /\ pc' = "raised"
                    /\ error' = "KeyError"
                    /\ agents_tracker' = r.tracker
                    /\ gen' = g
                    /\ obs' = o
               ELSE /\ pc' = "gen_fix"
                    /\ error' = "none"
                    /\ agents_tracker' = r.tracker
                    /\ gen' = g
                    /\ obs' = [o EXCEPT !.fix_prompt =
                                  [set |-> TRUE, code |-> code,
                                   missing |-> MissingPairs(r.unused, variables)]]
          ELSE \* the last pass: the loop ends and the code is checked once more
               LET r2 == check_usage_in_code(r.tracker, code)
               IN /\ pc' = "gen_returned"
                  /\ error' = "none"
                  /\ agents_tracker' = r2.tracker
                  /\ gen' = [g EXCEPT !.unused_vars = r2.unused]
                  /\ obs' = [o EXCEPT !.exit = "exhausted", !.checks = @ + 1]
    /\ UNCHANGED <<trackerVars, stageVars, sessions, mode, variables, validation_results, refl, result>>

\* the fix call and the extraction of its reply, to the end of the pass
Fix(reply) ==
    /\ pc = "gen_fix"
    /\ LET code == extract_terraform_code(reply)
       IN /\ gen' = [gen EXCEPT !.terraform_code = code, !.attempt = @ + 1]
          /\ obs' = [obs EXCEPT !.fix_calls = @ + 1, !.fix_code = code,
                                !.after_fix = FALSE, !.fix_prompt = NoPrompt,
                                !.best_unused = SeenCandidate(obs, code)]
    /\ pc' = "gen_attempt"
    /\ UNCHANGED <<trackerVars, stageVars, agents_tracker, sessions, mode, variables,
                   validation_results, refl, result, error>>

----------------------------------------------------------------------------
(* The validator agents *)

\* the score given to code with unused variables, and the default score, in hundredths
UnusedScore == 30

DefaultScore == 80

\* one issue per unused variable, built before the prompt
CriticalIssues(unused, d) ==
    [i \in 1..Len(unused) |-> Item("CRITICAL", unused[i], DictGet(d, unused[i]).value)]

\* validator_result taking the verdict and the score of a parsed reply as they come
validator_result_trusting(reply, issues, unused) ==
    IF reply.parsed
    THEN [is_valid |-> IF reply.has_is_valid THEN reply.is_valid ELSE TRUE,
          issues |-> issues \o reply.issues,
          suggestions |-> <<>>,
          score |-> IF reply.has_score THEN reply.score ELSE DefaultScore,
          set |-> TRUE]
    ELSE [is_valid |-> Len(unused) = 0,
          issues |-> issues,
          suggestions |-> <<>>,
          score |-> IF unused # <<>> THEN UnusedScore ELSE DefaultScore,
          set |-> TRUE]

\* the ValidationResult validator_agent builds from the reply
validator_result(reply, issues, unused) ==
    IF reply.parsed
    THEN [is_valid |-> (IF reply.has_is_valid THEN reply.is_valid ELSE TRUE)
                       /\ Len(unused) = 0,
          issues |-> issues \o reply.issues,
          suggestions |-> <<>>,
          score |-> IF unused # <<>> THEN UnusedScore
                    ELSE IF reply.has_score THEN reply.score ELSE DefaultScore,
          set |-> TRUE]
    ELSE [is_valid |-> Len(unused) = 0,
          issues |-> issues,
          suggestions |-> <<>>,
          score |-> IF unused # <<>> THEN UnusedScore ELSE DefaultScore,
          set |-> TRUE]

\* the ValidationResult security_agent and cost_optimizer_agent build from the reply
agent_result(reply) ==
    IF reply.parsed
    THEN [is_valid |-> IF reply.has_is_valid THEN reply.is_valid ELSE TRUE,
          issues |-> reply.issues,
          suggestions |-> <<>>,
          score |-> IF reply.has_score THEN reply.score ELSE DefaultScore,
          set |-> TRUE]
    ELSE [is_valid |-> TRUE, issues |-> <<>>, suggestions |-> <<>>,
          score |-> DefaultScore, set |-> TRUE]

\* validator_agent(terraform_code, variables), called by generate_with_agents
ValidatorAgent(reply) ==
    /\ pc = "gen_returned"
    /\ mode \in {"generate_with_agents", "pipeline"}
    /\ LET r == check_usage_in_code(agents_tracker, gen.terraform_code)
       IN /\ agents_tracker' = r.tracker
          /\ obs' = [obs EXCEPT !.validator_unused = r.unused, !.checks = @ + 1,
                                !.checked = gen.terraform_code]
          /\ IF LookupFails(r.unused, variables)
             THEN /\ pc' = "raised"
                  /\ error' = "KeyError"
                  /\ UNCHANGED validation_results
             ELSE /\ pc' = "security"
                  /\ error' = "none"
                  /\ validation_results' =
                        [validation_results EXCEPT !.validator =
                            validator_result(reply, CriticalIssues(r.unused, variables),
                                             r.unused)]
    /\ UNCHANGED <<trackerVars, stageVars, sessions, mode, variables, gen, refl, result>>

\* security_agent(terraform_code)
SecurityAgent(reply) ==
    /\ pc = "security"
    /\ validation_results' = [validation_results EXCEPT !.security = agent_result(reply)]
    /\ pc' = "cost"
    /\ UNCHANGED <<trackerVars, stageVars, agents_tracker, sessions, mode, variables, gen, refl,
                   result, error, obs>>

\* cost_optimizer_agent(terraform_code), and the return of generate_with_agents
CostAgent(reply) ==
    /\ pc = "cost"
    /\ validation_results' =
          [validation_results EXCEPT !.cost_optimizer = agent_result(reply)]
    /\ pc' = "agents_returned"
    /\ UNCHANGED <<trackerVars, stageVars, agents_tracker, sessions, mode, variables, gen, refl,
                   result, error, obs>>

\* "variable_tracker.variable_usage_map = {}" and add_variables(variables)
reset_tracker(trk, d) == add_variables([trk EXCEPT !.variable_usage_map = <<>>], d)

\* the pcs at which the next step of the call is generate_content, with nothing before it
CallPending == {"gen_attempt", "gen_fix", "security", "cost", "refine", "relevance"}

\* generate_content raises: none of the calls of the agents and of the reflection loop is
\* inside a try block, so the error leaves the function that made the call.  validator_agent
\* and the loop of reflection_qa_pipeline check the tracker before their call.
GenerateContentRaises ==
    /\ \/ /\ pc \in CallPending
          /\ agents_tracker' = agents_tracker
       \/ /\ pc = "gen_returned"
          /\ mode \in {"generate_with_agents", "pipeline"}
          /\ LET r == check_usage_in_code(agents_tracker, gen.terraform_code)
             IN /\ ~LookupFails(r.unused, variables)
                /\ agents_tracker' = r.tracker
       \/ /\ pc = "critique"
          /\ agents_tracker' =
                check_usage_in_code(reset_tracker(agents_tracker, variables),
                                    refl.current_code).tracker
    /\ pc' = "raised"
    /\ error' = "LLMError"
    /\ UNCHANGED <<trackerVars, stageVars, sessions, mode, variables, gen, validation_results, refl,
                   result, obs>>

GenInit ==
    /\ CallIdle
    /\ vt = NewTracker
    /\ vt_op = "new"
    /\ vt_code = <<>>
    /\ vt_arg = <<>>
    /\ vt_ret = NoReturn

\* one call of generator_agent or of generate_with_agents on a new RAGSystem
GenNext ==
    \/ \E d \in SessionMaps, m \in AttemptArgs : pc = "idle" /\ CallGeneratorAgent(d, m)
    \/ \E d \in SessionMaps : pc = "idle" /\ CallGenerateWithAgents(d)
    \/ \E reply \in CodeReplies : Generate(reply)
    \/ \E reply \in CodeReplies : Fix(reply)
    \/ \E reply \in AgentReplies : ValidatorAgent(reply)
    \/ \E reply \in OtherAgentReplies : SecurityAgent(reply)
    \/ \E reply \in OtherAgentReplies : CostAgent(reply)
    \/ GenerateContentRaises

SpecGen == GenInit /\ [][GenNext]_vars

----------------------------------------------------------------------------
(* ReflectionQA *)

\* max_iterations as the pipeline passes it, and its default
DefaultMaxIterations == 4

\* the values of max_iterations a direct caller passes
IterationArgs == 0..DefaultMaxIterations

\* the convergence threshold on overall_quality, and the two fallback qualities, in hundredths
QualityThreshold == 85

FallbackQualityUnused == 40

FallbackQualityUsed == 80

\* the must-fix items self_critique adds to a parsed critique, one per unused variable
CriticalFixes(unused) ==
    [i \in 1..Len(unused) |-> Item("CRITICAL", unused[i].key, unused[i].value)]

\* the fallback list with an item for the first unused variable only
FallbackFixesFirst(unused) ==
    IF unused = <<>> THEN <<>> ELSE <<Item("Add", unused[1].key, unused[1].value)>>

\* the must-fix items of the fallback critique
FallbackFixes(unused) ==
    [i \in 1..Len(unused) |-> Item("Add", unused[i].key, unused[i].value)]

\* self_critique leaving all_variables_used of a parsed reply as the service reported it
self_critique_trusting(reply, unused) ==
    IF reply.parsed
    THEN [parsed |-> TRUE, has_quality |-> reply.has_quality,
          overall_quality |-> reply.overall_quality,
          has_must_fix |-> (reply.has_must_fix \/ unused # <<>>),
          must_fix |-> reply.must_fix \o CriticalFixes(unused),
          all_variables_used |-> reply.all_variables_used, set |-> TRUE]
    ELSE [parsed |-> FALSE, has_quality |-> TRUE,
          overall_quality |-> IF unused # <<>> THEN FallbackQualityUnused
                              ELSE FallbackQualityUsed,
          has_must_fix |-> TRUE,
          must_fix |-> FallbackFixes(unused),
          all_variables_used |-> (unused = <<>>), set |-> TRUE]

\* ReflectionQA.self_critique: the critique built from the reply and the tracker's unused map
self_critique(reply, unused) ==
    IF reply.parsed
    THEN IF unused # <<>>
         THEN [parsed |-> TRUE, has_quality |-> reply.has_quality,
               overall_quality |-> reply.overall_quality,
               has_must_fix |-> TRUE,
               must_fix |-> reply.must_fix \o CriticalFixes(unused),
               all_variables_used |-> FALSE, set |-> TRUE]
         ELSE [parsed |-> TRUE, has_quality |-> reply.has_quality,
               overall_quality |-> reply.overall_quality,
               has_must_fix |-> reply.has_must_fix,
               must_fix |-> reply.must_fix,
               all_variables_used |-> TRUE, set |-> TRUE]
    ELSE [parsed |-> FALSE, has_quality |-> TRUE,
          overall_quality |-> IF unused # <<>> THEN FallbackQualityUnused
                              ELSE FallbackQualityUsed,
          has_must_fix |-> TRUE,
          must_fix |-> FallbackFixes(unused),
          all_variables_used |-> (unused = <<>>), set |-> TRUE]

\* the quality read as absent whatever the critique holds
QualityOfLost(c) == 0

\* critique.get('overall_quality', 0)
QualityOf(c) == IF c.has_quality THEN c.overall_quality ELSE 0

\* the convergence test without its must_fix condition
ConvergedIgnoringMustFix(c) ==
    /\ c.all_variables_used
    /\ QualityOf(c) >= QualityThreshold

\* the convergence test with the threshold at the quality of the fallback critique
ConvergedAtFallback(c) ==
    /\ c.all_variables_used
    /\ QualityOf(c) >= FallbackQualityUsed
    /\ c.must_fix = <<>>

\* the convergence test of the loop
Converged(c) ==
    /\ c.all_variables_used
    /\ QualityOf(c) >= QualityThreshold
    /\ c.must_fix = <<>>

\* "if unused_vars or critique.get('must_fix')": iterative_refinement is called
RefinementCalled(unused, c) == unused # <<>> \/ c.must_fix # <<>>

\* the two early returns of iterative_refinement, before its prompt
RefinementSkipped(c, trk) ==
    \/ (c.all_variables_used /\ c.must_fix = <<>>)
    \/ get_unused_variables(trk) = <<>>

\* the final check without the reset of the usage map
final_check_without_reset(trk, d, code) == check_usage_in_code(add_variables(trk, d), code)

\* the reset, add_variables and check_usage_in_code that follow the loop
final_check(trk, d, code) == check_usage_in_code(reset_tracker(trk, d), code)

\* EndIteration without the advance of the loop counter
EndIterationStuck(code, trk, c, o) ==
    /\ pc' = "critique"
    /\ agents_tracker' = trk
    /\ refl' = [refl EXCEPT !.current_code = code, !.critique = c, !.unused_vars = <<>>]
    /\ obs' = o

\* the end of an iteration: the next one, or the exit of the loop and the final check
EndIteration(code, trk, c, o) ==
    IF refl.iteration + 1 < refl.max_iterations
    THEN /\ pc' = "critique"
         /\ agents_tracker' = trk
         /\ refl' = [refl EXCEPT !.iteration = @ + 1, !.current_code = code,
                                 !.critique = c, !.unused_vars = <<>>]
         /\ obs' = o
    ELSE LET r == final_check(trk, variables, code)
         IN /\ pc' = "reflected"
            /\ agents_tracker' = r.tracker
            /\ refl' = [refl EXCEPT !.iteration = @ + 1, !.current_code = code,
                                    !.critique = c, !.unused_vars = r.unused]
            /\ obs' = o

\* reflection_qa_pipeline from its entry to its first call of the text generation service
EnterReflection(code, trk, n) ==
    /\ error' = "none"
    /\ obs' = NoObs
    /\ gen' = NoGen
    /\ result' = NoReturnValue
    /\ IF n = 0
       THEN LET r == final_check(trk, variables', code)
            IN /\ pc' = "reflected"
               /\ agents_tracker' = r.tracker
               /\ refl' = [NoRefl EXCEPT !.max_iterations = n, !.current_code = code,
                                         !.unused_vars = r.unused]
       ELSE /\ pc' = "critique"
            /\ agents_tracker' = trk
            /\ refl' = [NoRefl EXCEPT !.max_iterations = n, !.current_code = code]

\* a direct call reflection_qa_pipeline(code, {}, context, d, tracker, max_iterations = n)
\* with a tracker to which the caller has added the map t
CallReflection(code, d, t, n) ==
    /\ StartCall
    /\ mode' = "reflection_qa_pipeline"
    /\ variables' = d
    /\ validation_results' = NoResults
    /\ EnterReflection(code, add_variables(NewTracker, t), n)
    /\ UNCHANGED <<trackerVars, stageVars>>

\* the start of an iteration: the tracker reset and check, the critique, the convergence
\* test, and iterative_refinement up to its prompt
Critique(reply) ==
    /\ pc = "critique"
    /\ LET r == check_usage_in_code(reset_tracker(agents_tracker, variables),
                                    refl.current_code)
           c == self_critique(reply, get_unused_variables(r.tracker))
           o == [obs EXCEPT !.critique_calls = @ + 1]
       IN IF Converged(c)
          THEN LET f == final_check(r.tracker, variables, refl.current_code)
               IN /\ pc' = "reflected"
                  /\ agents_tracker' = f.tracker
                  /\ refl' = [refl EXCEPT !.critique = c, !.unused_vars = f.unused]
                  /\ obs' = [o EXCEPT !.converged = TRUE]
          ELSE IF RefinementCalled(r.unused, c) /\ ~RefinementSkipped(c, r.tracker)
          THEN /\ pc' = "refine"
               /\ agents_tracker' = r.tracker
               /\ refl' = [refl EXCEPT !.critique = c, !.unused_vars = r.unused]
               /\ obs' = o
          ELSE EndIteration(refl.current_code, r.tracker, c, o)
    /\ UNCHANGED <<trackerVars, stageVars, sessions, mode, variables, gen, validation_results,
                   result, error>>

\* the refinement call of iterative_refinement and the end of the iteration
Refine(reply) ==
    /\ pc = "refine"
    /\ EndIteration(refined_code_of(reply), agents_tracker, NoCritique,
                    [obs EXCEPT !.refine_calls = @ + 1])
    /\ UNCHANGED <<trackerVars, stageVars, sessions, mode, variables, gen, validation_results,
                   result, error>>

\* one call of reflection_qa_pipeline on a new RAGSystem
ReflectNext ==
    \/ \E code \in CodeTexts, d \in RequestMaps, t \in RequestMaps, n \in IterationArgs :
          pc = "idle" /\ CallReflection(code, d, t, n)
    \/ \E reply \in CritiqueReplies : Critique(reply)
    \/ \E reply \in CodeReplies : Refine(reply)
    \/ GenerateContentRaises

SpecReflect == GenInit /\ [][ReflectNext]_vars

----------------------------------------------------------------------------
(* LLMInputValidator *)

\* the confidence from which a correction needs no confirmation, in hundredths
ConfidenceThreshold == 80

\* the test for an empty map that never succeeds
NoVariablesNever(d) == FALSE

\* "if not variables": nothing to validate
NoVariables(d) == d = <<>>

\* variables.get(field_name, '')
OriginalValue(d, field) ==
    IF DictHas(d, field) THEN DictGet(d, field).value ELSE StrVal(<<>>)

\* field_validation.get('corrected_value', original_value)
CorrectedValue(f, original) ==
    IF f.has_corrected_value THEN f.corrected_value ELSE original

\* the ValidationIssue of a field; suggested_correction is <<>> for None
ValidationIssueOf(f, original, corrected) ==
    [field |-> f.field,
     original_value |-> PyStr(original),
     suggested_correction |-> IF corrected # original THEN <<PyStr(corrected)>> ELSE <<>>]

\* "if not is_valid", with field_validation.get('is_valid', True)
JudgedInvalid(f) == ~(IF f.has_is_valid THEN f.is_valid ELSE TRUE)

\* AutoCorrects with a strict comparison
AutoCorrectsAbove(f) == (IF f.has_conf THEN f.conf ELSE 0) > ConfidenceThreshold

\* "if auto_correct_confidence >= 0.8", with field_validation.get('auto_correct_confidence', 0.0)
AutoCorrects(f) == (IF f.has_conf THEN f.conf ELSE 0) >= ConfidenceThreshold

\* the body of the loop over validation_result['fields'], for one field
ProcessField(acc, f, d) ==
    LET original == OriginalValue(d, f.field)
        corrected == CorrectedValue(f, original)
        issue == ValidationIssueOf(f, original, corrected)
        put == [acc EXCEPT !.corrected_variables =
                               DictPut(@, [key |-> f.field, value |-> corrected])]
    IN IF JudgedInvalid(f)
       THEN IF AutoCorrects(f)
            THEN [put EXCEPT !.issues = Append(@, issue),
                             !.auto_corrected = Append(@, f.field)]
            ELSE [put EXCEPT !.issues = Append(@, issue),
                             !.needs_confirmation = Append(@, issue)]
       ELSE IF corrected # original
            THEN [put EXCEPT !.auto_corrected = Append(@, f.field)]
            ELSE acc

RECURSIVE ProcessFields(_, _, _)
ProcessFields(acc, fields, d) ==
    IF fields = <<>> THEN acc
    ELSE ProcessFields(ProcessField(acc, Head(fields), d), Tail(fields), d)

\* the fallback of the validation call with an empty corrected_variables
llm_validate_losing_variables(d, reply) ==
    IF reply.kind = "json"
    THEN [has_corrected |-> reply.has_corrected,
          corrected_variables |-> reply.corrected_variables, fields |-> reply.fields]
    ELSE [has_corrected |-> TRUE, corrected_variables |-> <<>>, fields |-> <<>>]

\* LLMInputValidator._llm_validate_all_variables: the dict parsed from the reply, or the
\* fallback when the call raises, the reply holds no braces, or json.loads raises
llm_validate_all_variables(d, reply) ==
    IF reply.kind = "json"
    THEN [has_corrected |-> reply.has_corrected,
          corrected_variables |-> reply.corrected_variables, fields |-> reply.fields]
    ELSE [has_corrected |-> TRUE, corrected_variables |-> d, fields |-> <<>>]

\* validate_and_correct from the validation call to its return
CorrectionOf(d, reply) ==
    LET vr == llm_validate_all_variables(d, reply)
        start == [corrected_variables |-> IF vr.has_corrected THEN vr.corrected_variables
                                          ELSE d,
                  issues |-> <<>>, auto_corrected |-> <<>>, needs_confirmation |-> <<>>]
    IN ProcessFields(start, vr.fields, d)

\* the verdicts of the validation reply on a field
Verdict(k, valid, corrected, conf) ==
    [field |-> k,
     has_is_valid |-> valid # "absent", is_valid |-> valid = "true",
     has_corrected_value |-> corrected, corrected_value |-> IntVal(1),
     has_conf |-> conf >= 0, conf |-> IF conf >= 0 THEN conf ELSE 0]

FieldVerdicts ==
    {Verdict(k, "false", TRUE, 80) : k \in Keys} \cup
    {Verdict(k, "false", TRUE, 79) : k \in Keys} \cup
    {Verdict(k, "false", TRUE, -1) : k \in Keys} \cup
    {Verdict(k, "false", FALSE, 95) : k \in Keys} \cup
    {Verdict(k, "true", TRUE, 95) : k \in Keys} \cup
    {Verdict(k, "absent", FALSE, -1) : k \in Keys}

\* the replies that are not a JSON object: the call raises, no braces, braces around no JSON
FailedReply(kind) ==
    [kind |-> kind, has_corrected |-> FALSE, corrected_variables |-> <<>>, fields |-> <<>>]

FailedReplies == {FailedReply(k) : k \in {"raises", "no_json", "bad_json"}}

\* the replies to the validation prompt: a field appears once in "fields"
ValidationReplies ==
    FailedReplies \cup
    {r \in [kind : {"json"}, has_corrected : BOOLEAN,
            corrected_variables : {<<[key |-> "k1", value |-> IntVal(1)]>>},
            fields : SeqsUpTo(FieldVerdicts, Cardinality(Keys))] :
        \A i, j \in 1..Len(r.fields) : i # j => r.fields[i].field # r.fields[j].field}

\* the resource types the callers pass
ResourceTypes == {"s3_bucket", "infrastructure"}

\* validate_and_correct from its entry to the validation call; without variables it returns
ValidateEntry(d, rt) ==
    /\ validator' = [issues |-> <<>>]
    /\ correction' = [NoCorrection EXCEPT !.set = NoVariables(d), !.variables = d,
                                          !.resource_type = rt]

\* a direct call validate_and_correct(d, rt)
CallValidate(d, rt) ==
    /\ StartCall
    /\ mode' = "validate_and_correct"
    /\ ValidateEntry(d, rt)
    /\ pc' = IF NoVariables(d) THEN "validated" ELSE "validating"
    /\ variables' = d
    /\ gen' = NoGen
    /\ validation_results' = NoResults
    /\ refl' = NoRefl
    /\ result' = NoReturnValue
    /\ error' = "none"
    /\ obs' = NoObs
    /\ UNCHANGED <<trackerVars, agents_tracker, rerank, retrieval, sandbox>>

\* the validation call and the rest of validate_and_correct; in the handler of main.py
\* generate_with_agents follows with corrected_variables
Validate(reply) ==
    /\ pc = "validating"
    /\ LET res == CorrectionOf(correction.variables, reply)
       IN /\ validator' = [issues |-> res.issues]
          /\ correction' = [correction EXCEPT !.set = TRUE, !.llm_calls = @ + 1,
                                              !.reply = reply,
                                              !.corrected_variables = res.corrected_variables,
                                              !.issues = res.issues,
                                              !.auto_corrected = res.auto_corrected,
                                              !.needs_confirmation = res.needs_confirmation]
          /\ IF mode = "pipeline"
             THEN GeneratorEntry(res.corrected_variables, DefaultMaxAttempts)
             ELSE /\ pc' = "validated"
                  /\ UNCHANGED <<agents_tracker, variables, gen, validation_results, refl,
                                 result, error, obs>>
    /\ UNCHANGED <<trackerVars, sessions, mode, rerank, retrieval, sandbox>>

\* calls of validate_and_correct on one LLMInputValidator
ValidateNext ==
    \/ \E d \in SessionMaps, rt \in ResourceTypes : CallValidate(d, rt)
    \/ \E reply \in ValidationReplies : Validate(reply)

SpecValidate == GenInit /\ [][ValidateNext]_vars

----------------------------------------------------------------------------
(* IntelligentReranker: relevance_scoring, security_validation, select_best_context *)

\* the score 1.0: scores are counted in ten-thousandths, so that the blend of two scores
\* and the product with a security score in tenths are whole numbers
ScoreUnit == 10000

\* "max_context=5" in rerank_and_validate
MaxContext == 5

\* the longest list of candidates handed to rerank_and_validate
MaxCandidates == 6

\* the RetrievalResults of the runs: a public bucket, a password, key management with IAM
CandidateKinds ==
    {[score |-> 5000, content |-> <<"public", "bucket">>],
     [score |-> 5000, content |-> <<"Password">>],
     [score |-> 2500, content |-> <<"kms", "iam">>]}

RerankInputs == SeqsUpTo(CandidateKinds, MaxCandidates)

\* the objects of the list: id is the position of the object in the list of the caller
CandidatesOf(input) ==
    [i \in 1..Len(input) |->
        [id |-> i, score |-> input[i].score, content |-> input[i].content]]

\* an entry of "scores": a number, or a value that cannot be added to a float
Num(v) == [num |-> TRUE, v |-> v]

NonNum == [num |-> FALSE, v |-> 0]

\* the replies to the relevance prompt: no braces, braces around no JSON, an object
\* without "scores", "scores" that is no list, and lists shorter and longer than the
\* candidates, one of them with an entry that is no number
RelevanceReplies ==
    {[kind |-> "no_json", scores_kind |-> "absent", scores |-> <<>>],
     [kind |-> "bad_json", scores_kind |-> "absent", scores |-> <<>>],
     [kind |-> "json", scores_kind |-> "absent", scores |-> <<>>],
     [kind |-> "json", scores_kind |-> "other", scores |-> <<>>],
     [kind |-> "json", scores_kind |-> "list", scores |-> <<Num(ScoreUnit)>>],
     [kind |-> "json", scores_kind |-> "list", scores |-> <<Num(0), Num(ScoreUnit)>>],
     [kind |-> "json", scores_kind |-> "list",
      scores |-> <<Num(ScoreUnit), NonNum, Num(0)>>],
     [kind |-> "json", scores_kind |-> "list",
      scores |-> <<Num(0), Num(ScoreUnit), Num(0), Num(ScoreUnit), Num(0), Num(ScoreUnit),
                   Num(0), Num(ScoreUnit)>>]}

\* the number of passes of the blending loop that assign a score: the loop ends at the
\* first entry that is no number (TypeError, swallowed by the bare except), and with
\* "scores" that is no list len() raises in the first pass
BlendedCount(n, reply) ==
    IF reply.kind # "json" \/ reply.scores_kind # "list"
    THEN 0
    ELSE LET m == Min(n, Len(reply.scores))
             bad == {i \in 1..m : ~reply.scores[i].num}
         IN IF bad = {} THEN m ELSE (CHOOSE i \in bad : \A j \in bad : i <= j) - 1

\* "result.score = (result.score + scores[i]) / 2", in place
BlendScores(results, reply) ==
    [i \in 1..Len(results) |->
        IF i <= BlendedCount(Len(results), reply)
        THEN [results[i] EXCEPT !.score = (@ + reply.scores[i].v) \div 2]
        ELSE results[i]]

\* the place of results[i] in sorted(results, key=score, reverse=True): the sort is
\* stable, equal scores keep their order
PlaceByScore(results, i) ==
    Cardinality({j \in 1..Len(results) :
                    \/ results[j].score > results[i].score
                    \/ results[j].score = results[i].score /\ j <= i})

SortedByScore(results) ==
    [p \in 1..Len(results) |->
        results[CHOOSE i \in 1..Len(results) : PlaceByScore(results, i) = p]]

\* relevance_scoring after its call of the service
relevance_scoring(results, reply) == SortedByScore(BlendScores(results, reply))

\* "content_lower = result.content.lower()" and the tests "word in content_lower"
Mentions(content, word) == \E i \in 1..Len(content) : Lower(content[i]) = word

\* security_score held at 1.0 from above
security_score_clamped(content) ==
    LET penalties ==
            (IF Mentions(content, "hardcoded") \/ Mentions(content, "password") THEN 3 ELSE 0)
            + (IF Mentions(content, "public") /\ Mentions(content, "bucket") THEN 2 ELSE 0)
    IN 10 - penalties

\* security_score of a content, in tenths
security_score(content) ==
    10
    - (IF Mentions(content, "hardcoded") \/ Mentions(content, "password") THEN 3 ELSE 0)
    - (IF Mentions(content, "public") /\ Mentions(content, "bucket") THEN 2 ELSE 0)
    + (IF Mentions(content, "encryption") \/ Mentions(content, "kms") THEN 1 ELSE 0)
    + (IF Mentions(content, "iam") \/ Mentions(content, "policy") THEN 1 ELSE 0)

\* security_validation: every score multiplied, the order of the list kept
security_validation(results) ==
    [i \in 1..Len(results) |->
        [results[i] EXCEPT !.score = (@ * security_score(results[i].content)) \div 10]]

\* select_best_context without the slice
select_whole_context(results, max_context) == results

\* "results[:max_context]"
select_best_context(results, max_context) ==
    SubSeq(results, 1, Min(max_context, Len(results)))

\* a call rerank_and_validate(query, input), up to the call of the service
CallRerank(input) ==
    /\ StartCall
    /\ mode' = "rerank_and_validate"
    /\ rerank' = [NoRerank EXCEPT !.input = CandidatesOf(input),
                                  !.objects = CandidatesOf(input)]
    /\ pc' = "relevance"
    /\ variables' = <<>>
    /\ gen' = NoGen
    /\ validation_results' = NoResults
    /\ refl' = NoRefl
    /\ result' = NoReturnValue
    /\ error' = "none"
    /\ obs' = NoObs
    /\ UNCHANGED <<trackerVars, agents_tracker, validator, correction, retrieval, sandbox>>

\* the list of the caller after the call: sorted() builds a new list, so the order of
\* the caller's list stays, but "result.score = ..." assigns to the objects themselves,
\* which the caller's list shares with the lists of the reranker
objects_after(objects, results) ==
    [i \in 1..Len(objects) |->
        results[CHOOSE j \in 1..Len(results) : results[j].id = objects[i].id]]

\* the reply of the service arrives: the rest of relevance_scoring, then
\* security_validation and select_best_context
RelevanceScoring(reply) ==
    /\ pc = "relevance"
    /\ \E scored \in {relevance_scoring(rerank.input, reply)} :
         \E validated \in {security_validation(scored)} :
           rerank' = [rerank EXCEPT !.reply = reply, !.scored = scored,
                                    !.validated = validated,
                                    !.objects = objects_after(@, validated),
                                    !.selected = select_best_context(validated, MaxContext)]
    /\ pc' = "reranked"
    /\ UNCHANGED <<trackerVars, agents_tracker, sessions, mode, variables, gen,
                   validation_results, refl, result, error, obs, validator, correction,
                   retrieval, sandbox>>

\* one call of rerank_and_validate: an IntelligentReranker keeps nothing between calls
RerankNext ==
    \/ \E input \in RerankInputs : pc = "idle" /\ CallRerank(input)
    \/ \E reply \in RelevanceReplies : RelevanceScoring(reply)
    \/ GenerateContentRaises

SpecRerank == GenInit /\ [][RerankNext]_vars

\* the longest list handed to security_validation when it is called on its own
MaxSecurityBatch == 2

\* a content for each combination of the four keyword tests of security_validation
ContentOf(secret, open, encrypted, governed) ==
    (IF secret THEN <<"Password">> ELSE <<"a">>)
    \o (IF open THEN <<"public", "bucket">> ELSE <<"bucket">>)
    \o (IF encrypted THEN <<"kms">> ELSE <<>>)
    \o (IF governed THEN <<"iam">> ELSE <<>>)

KeywordContents ==
    {ContentOf(secret, open, encrypted, governed) :
        secret \in BOOLEAN, open \in BOOLEAN, encrypted \in BOOLEAN, governed \in BOOLEAN}

SecurityInputs ==
    SeqsUpTo([score : {2500, 5000}, content : KeywordContents], MaxSecurityBatch)

\* a call security_validation(input): the scores are assigned to the objects of the list
CallSecurityValidation(input) ==
    /\ StartCall
    /\ mode' = "security_validation"
    /\ rerank' = [NoRerank EXCEPT !.input = CandidatesOf(input),
                                  !.validated = security_validation(CandidatesOf(input)),
                                  !.objects = security_validation(CandidatesOf(input))]
    /\ pc' = "secured"
    /\ variables' = <<>>
    /\ gen' = NoGen
    /\ validation_results' = NoResults
    /\ refl' = NoRefl
    /\ result' = NoReturnValue
    /\ error' = "none"
    /\ obs' = NoObs
    /\ UNCHANGED <<trackerVars, agents_tracker, validator, correction, retrieval, sandbox>>

\* one call of security_validation on a new IntelligentReranker
SecurityNext == \E input \in SecurityInputs : pc = "idle" /\ CallSecurityValidation(input)

SpecSecurity == GenInit /\ [][SecurityNext]_vars

----------------------------------------------------------------------------
(* MultiStrategyRetrieval: three queries of the index, one after the other *)

\* the number of documents in the index
MaxDocs == 5

\* top_k of semantic_search, structural_search and code_search in multi_strategy_retrieve
SemanticTopK == 5

StructuralTopK == 3

CodeTopK == 3

\* a match of the index for document i: document 2 is stored without metadata, document 3
\* with metadata that has no text, and the match of document 4 carries no score
IndexMatch(i) ==
    [id |-> i,
     has_metadata |-> i # 2,
     has_text |-> i \notin {2, 3},
     text |-> IF i % 2 = 0 THEN <<"public", "bucket">> ELSE <<"kms", "iam">>,
     has_score |-> i # 4,
     score |-> 2500 * ((i % 3) + 1)]

\* the first n documents of a ranking of the index: by ascending or by descending id
Ranking(n, descending) ==
    [j \in 1..n |-> IndexMatch(IF descending THEN MaxDocs + 1 - j ELSE j)]

\* the responses of an index that returns at most top_k matches: no "matches" key, or
\* the first documents of a ranking
IndexResponses(top_k) ==
    {[has_matches |-> FALSE, matches |-> <<>>]} \cup
    {[has_matches |-> TRUE, matches |-> Ranking(n, descending)] :
        n \in 0..Min(top_k, MaxDocs), descending \in BOOLEAN}

\* "RetrievalResult(content=..., score=..., metadata=..., strategy=...)" for one match
RetrievalResultOf(match, strategy) ==
    [content |-> IF match.has_metadata /\ match.has_text THEN match.text ELSE <<>>,
     score |-> IF match.has_score THEN match.score ELSE 0,
     metadata |-> IF match.has_metadata THEN <<match.id>> ELSE <<>>,
     strategy |-> strategy]

\* the loop "for match in results.get('matches', [])" of the three search methods
search_results(response, strategy) ==
    LET matches == IF response.has_matches THEN response.matches ELSE <<>>
    IN [j \in 1..Len(matches) |-> RetrievalResultOf(matches[j], strategy)]

\* the strategies in the order multi_strategy_retrieve runs them, and their top_k
Strategies == <<"semantic", "structural", "code">>

TopKOf(k) == <<SemanticTopK, StructuralTopK, CodeTopK>>[k]

\* all_results with the code results first
all_results_code_first(semantic_results, structural_results, code_results) ==
    code_results \o semantic_results \o structural_results

\* "all_results = semantic_results + structural_results + code_results"
all_results(semantic_results, structural_results, code_results) ==
    semantic_results \o structural_results \o code_results

\* a call multi_strategy_retrieve(query, resource_type), up to the first query of the index
CallRetrieve ==
    /\ pc = "idle"
    /\ StartCall
    /\ mode' = "multi_strategy_retrieve"
    /\ pc' = "index_query"
    /\ retrieval' = NoRetrieval
    /\ UNCHANGED <<trackerVars, agents_tracker, variables, gen, validation_results, refl,
                   result, error, obs, validator, correction, rerank, sandbox>>

\* the index answers the query of the search method that is running; after the third
\* answer the three lists are concatenated and returned
IndexAnswers(response) ==
    /\ pc = "index_query"
    /\ LET k == Len(retrieval.responses) + 1
           rs == Append(retrieval.responses, response)
       IN /\ response \in IndexResponses(TopKOf(k))
          /\ IF k < Len(Strategies)
             THEN /\ retrieval' = [retrieval EXCEPT !.responses = rs]
                  /\ pc' = "index_query"
             ELSE /\ retrieval' =
                        [retrieval EXCEPT
                            !.responses = rs,
                            !.results = all_results(search_results(rs[1], Strategies[1]),
                                                    search_results(rs[2], Strategies[2]),
                                                    search_results(rs[3], Strategies[3]))]
                  /\ pc' = "retrieved"
    /\ UNCHANGED <<trackerVars, agents_tracker, sessions, mode, variables, gen,
                   validation_results, refl, result, error, obs, validator, correction,
                   rerank, sandbox>>

\* the query of the index raises (network, quota, a deleted index): retrieve_index and
\* the three search methods have no try block, and neither has multi_strategy_retrieve
IndexQueryRaises ==
    /\ pc = "index_query"
    /\ retrieval' = [retrieval EXCEPT !.failed = Strategies[Len(retrieval.responses) + 1]]
    /\ pc' = "raised"
    /\ error' = "IndexQueryError"
    /\ UNCHANGED <<trackerVars, agents_tracker, sessions, mode, variables, gen,
                   validation_results, refl, result, obs, validator, correction,
                   rerank, sandbox>>

\* one call of multi_strategy_retrieve
RetrieveNext ==
    \/ CallRetrieve
    \/ \E response \in IndexResponses(SemanticTopK) : IndexAnswers(response)
    \/ IndexQueryRaises

SpecRetrieve == GenInit /\ [][RetrieveNext]_vars

----------------------------------------------------------------------------
(* TerraformSandboxTester of sandbox_testing.py: test_terraform_code and the commands *)
(* it runs in the sandbox directory                                                   *)

\* the return code run_command gives for a command that timed out or could not be started
TimedOut == 0 - 1

\* what run_command returns: the return code, and what stdout and stderr hold
RunResult(code, out, err) == [code |-> code, out |-> out, err |-> err]

\* a command that ran out of its time: "return -1, '', 'Command timed out'"
TimeoutResult == RunResult(TimedOut, "", "Command timed out")

\* terraform fmt -check: formatted, not formatted, timed out
FmtResults == {RunResult(0, "", ""), RunResult(3, "main.tf", ""), TimeoutResult}

\* terraform init: done, failed, timed out
InitResults == {RunResult(0, "initialized", ""), RunResult(1, "", "init error"), TimeoutResult}

\* terraform validate -json: stdout is a JSON object (valid, valid with a warning, invalid
\* with an error diagnostic, without the key "valid"), empty, or no JSON
ValidateResults ==
    {RunResult(0, "valid", ""), RunResult(0, "valid_warning", ""),
     RunResult(1, "invalid_error", ""), RunResult(0, "no_valid_key", ""),
     RunResult(0, "", ""), RunResult(1, "", "validate error"), RunResult(1, "", ""),
     RunResult(0, "garbage", ""), RunResult(1, "garbage", "validate error"),
     TimeoutResult}

\* which tfsec, which checkov: installed, not installed, timed out
WhichResults == {RunResult(0, "path", ""), RunResult(1, "", ""), TimeoutResult}

\* tfsec . --format json: stdout holds no finding, one finding of a severity, a finding
\* without severity, nothing, or no JSON
TfsecResults ==
    {RunResult(0, "clean", ""), RunResult(1, "LOW", ""), RunResult(1, "MEDIUM", ""),
     RunResult(1, "HIGH", ""), RunResult(1, "CRITICAL", ""), RunResult(1, "UNKNOWN", ""),
     RunResult(0, "", ""), RunResult(1, "", "tfsec error"), RunResult(1, "garbage", ""),
     TimeoutResult}

\* checkov -d . --output json: a summary without failed checks, with two failed checks,
\* no summary, nothing, or no JSON
CheckovResults ==
    {RunResult(0, "clean", ""), RunResult(1, "failed", ""), RunResult(0, "no_summary", ""),
     RunResult(0, "", ""), RunResult(1, "", "checkov error"), RunResult(1, "garbage", ""),
     TimeoutResult}

\* terraform plan: done, failed, timed out
PlanResults == {RunResult(0, "plan", ""), RunResult(1, "", "plan error"), TimeoutResult}

\* a step of the test as the log of the sandbox records it: the command and its outcome
Step(cmd, res) == [cmd |-> cmd, code |-> res.code, out |-> res.out]

\* the format check reporting a failure as an error
format_checked_as_error(fmt) ==
    [NoValidation EXCEPT
        !.format_valid = (fmt.code = 0),
        !.errors = IF fmt.code = 0 THEN <<>> ELSE <<"Code is not properly formatted">>]

\* validate_terraform up to terraform init: the format check only adds a warning
format_checked(fmt) ==
    [NoValidation EXCEPT
        !.format_valid = (fmt.code = 0),
        !.warnings = IF fmt.code = 0 THEN <<>> ELSE <<"Code is not properly formatted">>]

\* init_failed that leaves "valid" to the caller
init_failed_unmarked(v, init) ==
    [v EXCEPT !.set = TRUE, !.valid = TRUE, !.init_success = FALSE,
              !.errors = Append(@, "Terraform init failed: " \o init.err)]

\* "if not init_success": validate_terraform returns without running terraform validate
init_failed(v, init) ==
    [v EXCEPT !.set = TRUE, !.valid = FALSE, !.init_success = FALSE,
              !.errors = Append(@, "Terraform init failed: " \o init.err)]

\* "valid" after terraform validate: from the JSON on stdout when there is one, from the
\* return code when stdout is empty or json.loads fails
ValidOf(val) ==
    CASE val.out \in {"valid", "valid_warning"} -> TRUE
      [] val.out \in {"invalid_error", "no_valid_key"} -> FALSE
      [] OTHER -> val.code = 0

\* the errors added after terraform validate
ErrorsOf(val) ==
    CASE val.out = "invalid_error" -> <<"summary: detail">>
      [] val.out \in {"valid", "valid_warning", "no_valid_key"} -> <<>>
      [] val.out = "" -> IF val.code = 0 THEN <<>>
                         ELSE <<IF val.err # "" THEN val.err ELSE "Validation failed">>
      [] OTHER -> IF val.code = 0 THEN <<>> ELSE <<val.err>>

\* the rest of validate_terraform after a terraform init that succeeded
validated(v, val) ==
    [v EXCEPT !.set = TRUE, !.valid = ValidOf(val), !.init_success = TRUE,
              !.errors = @ \o ErrorsOf(val),
              !.warnings = @ \o (IF val.out = "valid_warning"
                                 THEN <<"summary: detail">> ELSE <<>>)]

\* a SecurityScanResult
ScanResult(scanner, passed, critical, high, medium, low) ==
    [scanner |-> scanner, passed |-> passed, critical_issues |-> critical,
     high_issues |-> high, medium_issues |-> medium, low_issues |-> low]

\* what a scan method returns: None, or a SecurityScanResult
NoScan == <<>>

\* scan_with_tfsec after the run of tfsec: None for a failed run without output and for
\* output that is no JSON; an empty stdout of a run that returned 0 counts as no finding
tfsec_result(run) ==
    IF run.code # 0 /\ run.out = "" THEN NoScan
    ELSE IF run.out = "garbage" THEN NoScan
    ELSE LET critical == IF run.out = "CRITICAL" THEN 1 ELSE 0
             high == IF run.out = "HIGH" THEN 1 ELSE 0
             medium == IF run.out = "MEDIUM" THEN 1 ELSE 0
             low == IF run.out = "LOW" THEN 1 ELSE 0
         IN <<ScanResult("tfsec", critical = 0 /\ high = 0, critical, high, medium, low)>>

\* the number of failed checks in the summary of checkov, 0 without a summary
FailedChecks(run) == IF run.out = "failed" THEN 2 ELSE 0

\* scan_with_checkov after the run of checkov: the return code is not looked at, and an
\* empty stdout is read as the empty object
checkov_result(run) ==
    IF run.out = "garbage" THEN NoScan
    ELSE <<ScanResult("checkov", FailedChecks(run) = 0, 0, FailedChecks(run), 0, 0)>>

\* generate_plan: stdout of a plan that succeeded, stderr otherwise
plan_output_of(run) == IF run.code = 0 THEN run.out ELSE run.err

\* a scanner taken as installed whatever "which" returned
InstalledAlways(check) == TRUE

\* "if check_code != 0: ... return None": the scanner is run only when "which" returned 0
Installed(check) == check.code = 0

\* overall_passed without the scans
overall_passed_by_validation(validation, security_scans) == validation.valid

\* "overall_passed = validation.valid" and "overall_passed &= all(scan.passed ...)"
overall_passed(validation, security_scans) ==
    /\ validation.valid
    /\ \A i \in 1..Len(security_scans) : security_scans[i].passed

\* "if run_security_scan and validation.valid" without the test of validation.valid
ScansWantedAlways(sb) == sb.run_security_scan

\* "if run_security_scan and validation.valid"
ScansWanted(sb) == sb.run_security_scan /\ sb.validation.valid

\* "if generate_plan and validation.valid"
PlanWanted(sb) == sb.generate_plan /\ sb.validation.valid

\* where test_terraform_code goes on after validate_terraform and after the scans
AfterValidation(sb) ==
    IF ScansWanted(sb) THEN "sb_which_tfsec"
    ELSE IF PlanWanted(sb) THEN "sb_plan" ELSE "sb_finish"

AfterScans(sb) == IF PlanWanted(sb) THEN "sb_plan" ELSE "sb_finish"

\* the steps of test_terraform_code inside its try block
SandboxSteps ==
    {"sb_write", "sb_fmt", "sb_init", "sb_validate", "sb_which_tfsec", "sb_tfsec",
     "sb_which_checkov", "sb_checkov", "sb_plan"}

\* what a step of the test leaves alone
SandboxFrame ==
    UNCHANGED <<trackerVars, agents_tracker, sessions, mode, variables, gen,
                validation_results, refl, result, error, obs, validator, correction,
                rerank, retrieval>>

\* a call test_terraform_code(code, run_security_scan, generate_plan): create_sandbox
\* stands before the try block, so a failure of mkdtemp leaves the call with no sandbox
CallTest(run_security_scan, generate_plan, created) ==
    /\ pc = "idle"
    /\ StartCall
    /\ mode' = "test_terraform_code"
    /\ sandbox' = [NoSandbox EXCEPT !.run_security_scan = run_security_scan,
                                    !.generate_plan = generate_plan,
                                    !.exists = created]
    /\ pc' = IF created THEN "sb_write" ELSE "raised"
    /\ error' = IF created THEN "none" ELSE "OSError"
    /\ UNCHANGED <<trackerVars, agents_tracker, variables, gen, validation_results, refl,
                   result, obs, validator, correction, rerank, retrieval>>

\* write_terraform_file: an error of open or write is caught by "except Exception"
WriteFile(written) ==
    /\ pc = "sb_write"
    /\ sandbox' = [sandbox EXCEPT
                      !.commands = Append(@, Step("write", RunResult(IF written THEN 0 ELSE 1,
                                                                     "", ""))),
                      !.raised = IF written THEN "none" ELSE "Exception"]
    /\ pc' = IF written THEN "sb_fmt" ELSE "sb_finish"
    /\ SandboxFrame

\* validate_terraform: terraform fmt -check
Fmt(run) ==
    /\ pc = "sb_fmt"
    /\ sandbox' = [sandbox EXCEPT !.commands = Append(@, Step("fmt", run)),
                                  !.validation = format_checked(run)]
    /\ pc' = "sb_init"
    /\ SandboxFrame

\* validate_terraform: terraform init, and the return when it failed
InitTerraform(run) ==
    /\ pc = "sb_init"
    /\ LET sb == [sandbox EXCEPT
                     !.commands = Append(@, Step("init", run)),
                     !.validation = IF run.code = 0 THEN @ ELSE init_failed(@, run)]
       IN /\ sandbox' = sb
          /\ pc' = IF run.code = 0 THEN "sb_validate" ELSE AfterValidation(sb)
    /\ SandboxFrame

\* validate_terraform: terraform validate -json, and the return
ValidateTerraform(run) ==
    /\ pc = "sb_validate"
    /\ LET sb == [sandbox EXCEPT !.commands = Append(@, Step("validate", run)),
                                 !.validation = validated(@, run)]
       IN /\ sandbox' = sb
          /\ pc' = AfterValidation(sb)
    /\ SandboxFrame

\* scan_with_tfsec: which tfsec
WhichTfsec(run) ==
    /\ pc = "sb_which_tfsec"
    /\ sandbox' = [sandbox EXCEPT !.commands = Append(@, Step("which tfsec", run))]
    /\ pc' = IF Installed(run) THEN "sb_tfsec" ELSE "sb_which_checkov"
    /\ SandboxFrame

\* scan_with_tfsec: the run of tfsec, and "if tfsec_result: security_scans.append"
Tfsec(run) ==
    /\ pc = "sb_tfsec"
    /\ sandbox' = [sandbox EXCEPT !.commands = Append(@, Step("tfsec", run)),
                                  !.security_scans = @ \o tfsec_result(run)]
    /\ pc' = "sb_which_checkov"
    /\ SandboxFrame

\* scan_with_checkov: which checkov
WhichCheckov(run) ==
    /\ pc = "sb_which_checkov"
    /\ sandbox' = [sandbox EXCEPT !.commands = Append(@, Step("which checkov", run))]
    /\ pc' = IF Installed(run) THEN "sb_checkov" ELSE AfterScans(sandbox)
    /\ SandboxFrame

\* scan_with_checkov: the run of checkov, and "if checkov_result: security_scans.append"
Checkov(run) ==
    /\ pc = "sb_checkov"
    /\ sandbox' = [sandbox EXCEPT !.commands = Append(@, Step("checkov", run)),
                                  !.security_scans = @ \o checkov_result(run)]
    /\ pc' = AfterScans(sandbox)
    /\ SandboxFrame

\* generate_plan: terraform plan
Plan(run) ==
    /\ pc = "sb_plan"
    /\ sandbox' = [sandbox EXCEPT !.commands = Append(@, Step("plan", run)),
                                  !.plan_output = plan_output_of(run)]
    /\ pc' = "sb_finish"
    /\ SandboxFrame

\* a KeyboardInterrupt during a step: neither run_command nor test_terraform_code catches
\* it ("except Exception"), the finally clause runs and the interrupt reaches the caller
Interrupted ==
    /\ pc \in SandboxSteps
    /\ sandbox' = [sandbox EXCEPT !.raised = "KeyboardInterrupt"]
    /\ pc' = "sb_finish"
    /\ SandboxFrame

\* an exception of a class derived from Exception raised by a statement of the try block
\* outside run_command (a print to a closed stdout, a MemoryError): "except Exception"
\* catches it wherever the test stands
PhaseRaises ==
    /\ pc \in SandboxSteps
    /\ sandbox' = [sandbox EXCEPT !.raised = "Exception"]
    /\ pc' = "sb_finish"
    /\ SandboxFrame

\* the except clause building a result that counts as passed
ErrorResultPassed ==
    [NoTestResult EXCEPT !.set = TRUE, !.status = "error", !.overall_passed = TRUE]

\* the TestResult of the except clause
ErrorResult ==
    [NoTestResult EXCEPT !.set = TRUE, !.status = "error"]

\* the TestResult of a test that ran to its end
TestResultOf(sb) ==
    LET passed == overall_passed(sb.validation, sb.security_scans)
    IN [set |-> TRUE, status |-> IF passed THEN "success" ELSE "failed",
        validation |-> sb.validation, security_scans |-> sb.security_scans,
        plan_output |-> sb.plan_output, overall_passed |-> passed]

\* cleanup_sandbox never run
finally_nothing(sb, removed) == sb

\* the finally clause: cleanup_sandbox, whose rmtree may fail without an error for the caller
finally_cleanup(sb, removed) ==
    [sb EXCEPT !.commands = Append(@, Step("cleanup", RunResult(IF removed THEN 0 ELSE 1,
                                                                "", ""))),
               !.exists = ~removed]

\* the end of test_terraform_code: the result is put together, or the except clause
\* builds its result, and the finally clause cleans up before the call returns
FinishTest(removed) ==
    /\ pc = "sb_finish"
    /\ LET res == CASE sandbox.raised = "none" -> TestResultOf(sandbox)
                     [] sandbox.raised = "Exception" -> ErrorResult
                     [] OTHER -> NoTestResult
       IN sandbox' = [finally_cleanup(sandbox, removed) EXCEPT !.result = res]
    /\ pc' = IF sandbox.raised = "KeyboardInterrupt" THEN "raised" ELSE "tested"
    /\ error' = IF sandbox.raised = "KeyboardInterrupt" THEN "KeyboardInterrupt" ELSE error
    /\ UNCHANGED <<trackerVars, agents_tracker, sessions, mode, variables, gen,
                   validation_results, refl, result, obs, validator, correction,
                   rerank, retrieval>>

\* one call of test_terraform_code
SandboxNext ==
    \/ \E s \in BOOLEAN, g \in BOOLEAN, created \in BOOLEAN : CallTest(s, g, created)
    \/ \E written \in BOOLEAN : WriteFile(written)
    \/ \E run \in FmtResults : Fmt(run)
    \/ \E run \in InitResults : InitTerraform(run)
    \/ \E run \in ValidateResults : ValidateTerraform(run)
    \/ \E run \in WhichResults : WhichTfsec(run)
    \/ \E run \in TfsecResults : Tfsec(run)
    \/ \E run \in WhichResults : WhichCheckov(run)
    \/ \E run \in CheckovResults : Checkov(run)
    \/ \E run \in PlanResults : Plan(run)
    \/ Interrupted
    \/ PhaseRaises
    \/ \E removed \in BOOLEAN : FinishTest(removed)

SpecSandbox == GenInit /\ [][SandboxNext]_vars

----------------------------------------------------------------------------
(* The generation pipeline: generate_terraform of main.py (the /api/generate handler) *)
(* and RAGSystem.generate_terraform_code run the same stages on one RAGSystem.         *)

\* the resource type the handler passes to validate_and_correct
PipelineResourceType == "infrastructure"

\* the handler up to its first call of the text generation service: validate_and_correct
\* on the variables of the request, which returns at once for an empty map, and then
\* generate_with_agents on corrected_variables
GenerateTerraform(d) ==
    /\ StartCall
    /\ mode' = "pipeline"
    /\ ValidateEntry(d, PipelineResourceType)
    /\ IF NoVariables(d)
       THEN GeneratorEntry(<<>>, DefaultMaxAttempts)
       ELSE /\ pc' = "validating"
            /\ variables' = d
            /\ gen' = NoGen
            /\ validation_results' = NoResults
            /\ refl' = NoRefl
            /\ result' = NoReturnValue
            /\ error' = "none"
            /\ obs' = NoObs
            /\ UNCHANGED agents_tracker
    /\ UNCHANGED <<trackerVars, rerank, retrieval, sandbox>>

\* the call of reflection_qa_pipeline with the code and the tracker of generate_with_agents
StartReflection ==
    /\ pc = "agents_returned"
    /\ mode = "pipeline"
    /\ UNCHANGED <<trackerVars, stageVars, sessions, mode, variables, validation_results>>
    /\ EnterReflection(gen.terraform_code, agents_tracker, DefaultMaxIterations)

\* the final tracker without add_variables
final_tracker_empty(d) == NewTracker

\* "final_tracker = VariableTracker()" and "final_tracker.add_variables(variables)"
final_tracker_of(d) == add_variables(NewTracker, d)

\* the final verification on a new VariableTracker, and the response
FinalVerification ==
    /\ pc = "reflected"
    /\ mode = "pipeline"
    /\ LET final_code == refl.current_code
           r == check_usage_in_code(final_tracker_of(variables), final_code)
       IN result' = [set |-> TRUE, terraform_code |-> final_code,
                     used_variables |-> r.used, unused_variables |-> r.unused]
    /\ pc' = "done"
    /\ UNCHANGED <<trackerVars, stageVars, agents_tracker, sessions, mode, variables, gen,
                   validation_results, refl, error, obs>>

\* the replies of the service in the pipeline runs: no code, code with one value, code
\* with both values inside a fence and followed by prose
PipelineCodeReplies ==
    {<<>>,
     <<"resource", "a">>,
     <<Fence, "hcl", NL, "resource", "a", NL, "1", NL, "Note:", "1", NL, Fence>>}

PipelineAgentReplies == OtherAgentReplies

\* the replies to the validation prompt in the pipeline runs: the call raises, or the
\* reply judges k1 invalid with confidence 0.79 and proposes the value 1
PipelineValidationReplies ==
    {FailedReply("raises"),
     [kind |-> "json", has_corrected |-> FALSE, corrected_variables |-> <<>>,
      fields |-> <<Verdict("k1", "false", TRUE, 79)>>]}

Init == GenInit

Next ==
    \/ \E d \in RequestMaps : GenerateTerraform(d)
    \/ \E reply \in PipelineValidationReplies : Validate(reply)
    \/ \E reply \in PipelineCodeReplies : Generate(reply)
    \/ \E reply \in PipelineCodeReplies : Fix(reply)
    \/ \E reply \in PipelineAgentReplies : ValidatorAgent(reply)
    \/ \E reply \in PipelineAgentReplies : SecurityAgent(reply)
    \/ \E reply \in PipelineAgentReplies : CostAgent(reply)
    \/ StartReflection
    \/ \E reply \in CritiqueReplies : Critique(reply)
    \/ \E reply \in PipelineCodeReplies : Refine(reply)
    \/ FinalVerification
    \/ GenerateContentRaises

Spec == Init /\ [][Next]_vars

----------------------------------------------------------------------------
(* Properties *)

UsageMap == agents_tracker.variable_usage_map

\* the indices of the variables of the call whose value is absent from code
Absent(code) ==
    {i \in 1..Len(variables) : ~IsSubstr(PyStr(variables[i].value), code)}

\* C1: right after check_usage_in_code(code) returns, every tracked key has used = TRUE
\* exactly when str(value) is a substring of code, and the unused list that is returned is
\* empty only if every tracked value is a substring of code.
C1_UsedIffSubstring ==
    vt_op = "check" =>
        /\ \A i \in 1..Len(vt.variable_usage_map) :
              vt.variable_usage_map[i].used
                  <=> IsSubstr(PyStr(vt.variable_usage_map[i].value), vt_code)
        /\ (vt_ret.unused = <<>> =>
              \A i \in 1..Len(vt.variable_usage_map) :
                  IsSubstr(PyStr(vt.variable_usage_map[i].value), vt_code))

\* C1 witness: a check that found one tracked value, an integer, and missed another, after
\* an earlier check had found the latter
C1_Witness ==
    /\ vt_op = "check"
    /\ \E i, j \in 1..Len(vt.variable_usage_map) :
          /\ vt.variable_usage_map[i].used
          /\ vt.variable_usage_map[i].value.tag = "int"
          /\ ~vt.variable_usage_map[j].used
          /\ vt.variable_usage_map[j].locations # <<>>

\* C2: the used and unused lists of the response of a full generation are those of a check
\* against the code that is returned: a key is reported unused exactly when str(value) is
\* not a substring of the returned code, and used otherwise.
C2_ResponseReportsFinalCode ==
    (pc = "done" /\ result.set) =>
        /\ result.terraform_code = refl.current_code
        /\ \A i \in 1..Len(variables) :
              /\ variables[i].key \in Range(result.unused_variables)
                    <=> ~IsSubstr(PyStr(variables[i].value), result.terraform_code)
              /\ variables[i].key \in Range(result.used_variables)
                    <=> IsSubstr(PyStr(variables[i].value), result.terraform_code)
        /\ Range(result.unused_variables) \cup Range(result.used_variables)
              = DictKeys(variables)

\* C2 witness: a response of the second request that reports one variable used and one unused
C2_Witness ==
    /\ pc = "done"
    /\ result.set
    /\ sessions = 2
    /\ result.used_variables # <<>>
    /\ result.unused_variables # <<>>

\* C3 (as stated): in every session the tracker read by generator_agent and validator_agent
\* tracks exactly the keys of the session's variables map; no other key is reported unused
\* or looked up in the map.
C3_TrackerTracksSessionKeys ==
    /\ (mode = "pipeline" /\ pc \in {"gen_attempt", "gen_fix", "gen_returned", "security"}) =>
          /\ DictKeys(UsageMap) = DictKeys(variables)
          /\ Range(gen.unused_vars) \subseteq DictKeys(variables)
          /\ Range(obs.validator_unused) \subseteq DictKeys(variables)
    /\ error # "KeyError"

\* C4 (as stated): when generator_agent returns after its last pass, no candidate of the
\* call, from a generation prompt or from a fix prompt, has fewer unused variables than
\* the code returned.
C4_ReturnsBestCandidate ==
    (pc = "gen_returned" /\ obs.exit = "exhausted") =>
        UnusedCount(gen.terraform_code) <= obs.best_unused

\* C5: generator_agent with max_attempts >= 1 makes at most max_attempts generation calls
\* and at most max_attempts - 1 fix calls; while it is still running, the candidate it
\* checked last lacks a tracked value; and when a candidate lacks none it has returned
\* that candidate, having made one generation call per pass and one fix call per earlier pass.
C5_EarlyExitAndCallBounds ==
    gen.max_attempts >= 1 =>
        /\ obs.gen_calls <= gen.max_attempts
        /\ obs.fix_calls <= gen.max_attempts - 1
        /\ (pc \in {"gen_attempt", "gen_fix"} /\ obs.gen_calls > 0) =>
              \E i \in 1..Len(UsageMap) : ~IsSubstr(PyStr(UsageMap[i].value), obs.checked)
        /\ (obs.gen_calls > 0 /\ mode = "generator_agent"
                /\ \A i \in 1..Len(UsageMap) : IsSubstr(PyStr(UsageMap[i].value), obs.checked)) =>
              /\ pc = "gen_returned"
              /\ gen.terraform_code = obs.checked
              /\ obs.gen_calls = gen.attempt + 1
              /\ obs.fix_calls = gen.attempt

\* C5 witness: a call with max_attempts = 3 that returned from its second pass, after one
\* fix call
C5_Witness ==
    /\ pc = "gen_returned"
    /\ gen.max_attempts = 3
    /\ obs.exit = "early"
    /\ obs.gen_calls = 2
    /\ obs.fix_calls = 1
    /\ Len(variables) = 2

\* C6 (as stated): the fix prompt names exactly the unused key/value pairs and the current
\* code, and the candidate checked next is the code the fix prompt returned.
C6_RetryWorksFromFixResponse ==
    /\ pc = "gen_fix" =>
          /\ obs.fix_prompt.set
          /\ obs.fix_prompt.code = gen.terraform_code
          /\ {obs.fix_prompt.missing[i] : i \in 1..Len(obs.fix_prompt.missing)}
                = {variables[i] : i \in Absent(gen.terraform_code)}
    /\ obs.after_fix => obs.checked = obs.fix_code

\* C7: whenever the tracker check of validator_agent reports an unused variable, the
\* ValidationResult has is_valid = FALSE, a score of at most 0.3 and one CRITICAL issue for
\* each unused variable, whatever the reply.
C7_UnusedOverridesReply ==
    (validation_results.validator.set /\ obs.validator_unused # <<>>) =>
        LET v == validation_results.validator
            critical == {j \in 1..Len(v.issues) : v.issues[j].kind = "CRITICAL"}
        IN /\ ~v.is_valid
           /\ v.score <= 30
           /\ \A i \in 1..Len(obs.validator_unused) :
                 \E j \in critical : v.issues[j].var = obs.validator_unused[i]
           /\ Cardinality(critical) = Len(obs.validator_unused)

\* C7 witness: a result for code with an unused variable, built from a parsed reply that
\* added an issue of its own
C7_Witness ==
    /\ validation_results.validator.set
    /\ obs.validator_unused # <<>>
    /\ Len(validation_results.validator.issues) > Len(obs.validator_unused)

\* C8: the loop of reflection_qa_pipeline stops in an iteration, without refinement, exactly
\* when that iteration's critique has all_variables_used, overall_quality >= 0.85 and no
\* must_fix item; otherwise it goes on, to refinement or to the next iteration, and leaves
\* only when max_iterations iterations are done (or when the service raises).
C8_StopsExactlyOnConvergence ==
    (refl.critique.set /\ error # "LLMError") =>
        LET c == refl.critique
            conv == /\ c.all_variables_used
                    /\ c.has_quality /\ c.overall_quality >= 85
                    /\ c.must_fix = <<>>
        IN /\ obs.converged <=> (conv /\ pc = "reflected")
           /\ conv => (pc = "reflected" /\ refl.iteration < refl.max_iterations)
           /\ ~conv => \/ pc \in {"refine", "critique"}
                       \/ (pc = "reflected" /\ refl.iteration = refl.max_iterations)

\* C8 witness: convergence in the third iteration, after two refinements
C8_Witness ==
    /\ refl.critique.set
    /\ obs.converged
    /\ refl.iteration = 2
    /\ obs.refine_calls = 2

\* C9: in every iteration the tracker is reset and recomputed against the current code, the
\* critique's all_variables_used equals the tracker's result whatever the reply says, and
\* the loop never leaves by convergence while a value is absent from the current code.
C9_CritiqueFollowsTracker ==
    refl.critique.set =>
        /\ refl.critique.all_variables_used <=> Absent(refl.current_code) = {}
        /\ obs.converged => Absent(refl.current_code) = {}
        /\ DictKeys(UsageMap) = DictKeys(variables)
        /\ \A i \in 1..Len(UsageMap) :
              /\ UsageMap[i].used <=> IsSubstr(PyStr(UsageMap[i].value), refl.current_code)
              /\ UsageMap[i].locations
                    = LinesWith(PyStr(UsageMap[i].value), SplitLines(refl.current_code), 1)

\* C9 witness: in the second session, a parsed critique of code that lacks a value
C9_Witness ==
    /\ refl.critique.set
    /\ refl.critique.parsed
    /\ ~refl.critique.all_variables_used
    /\ sessions = 2
    /\ pc = "refine"

\* C10: reflection_qa_pipeline runs at most max_iterations iterations, each with one
\* critique call and at most one refinement call, and every step of it takes it closer to
\* its return, as long as the text generation service returns text.
C10_BoundedIterations ==
    (mode = "reflection_qa_pipeline" /\ error # "LLMError") =>
        /\ refl.iteration <= refl.max_iterations
        /\ obs.critique_calls <= refl.max_iterations
        /\ obs.refine_calls <= obs.critique_calls
        /\ pc = "critique" =>
              (obs.critique_calls = refl.iteration /\ refl.iteration < refl.max_iterations)
        /\ pc = "refine" =>
              (obs.critique_calls = refl.iteration + 1 /\ obs.refine_calls <= refl.iteration)
        /\ pc \in {"critique", "refine", "reflected"}

\* C10 witness: a call with the default budget that used all of it, refining every time
C10_Witness ==
    /\ mode = "reflection_qa_pipeline"
    /\ pc = "reflected"
    /\ refl.max_iterations = 4
    /\ obs.critique_calls = 4
    /\ obs.refine_calls = 4

\* the names get_unused_variables returns for the tracker of the agents: the entries whose
\* used flag is down
TrackerUnused == {UsageMap[i].key : i \in {j \in 1..Len(UsageMap) : ~UsageMap[j].used}}

\* C11: when reflection_qa_pipeline has returned, by convergence or after max_iterations
\* iterations (0 included), the tracker tracks the variables of the call and its unused
\* variables are exactly those whose str(value) is not a substring of the returned code.
C11_FinalCheckOnReturnedCode ==
    (pc = "reflected" /\ mode = "reflection_qa_pipeline") =>
        /\ DictKeys(UsageMap) = DictKeys(variables)
        /\ TrackerUnused = {variables[i].key : i \in Absent(refl.current_code)}
        /\ Range(refl.unused_vars) = TrackerUnused

\* C11 witness: a return with max_iterations = 0 of code that lacks one of two values
C11_Witness ==
    /\ pc = "reflected"
    /\ mode = "reflection_qa_pipeline"
    /\ refl.max_iterations = 0
    /\ Len(variables) = 2
    /\ Cardinality(TrackerUnused) = 1

\* C12: when the input code contains every value and the first critique parses with
\* overall_quality >= 0.85 and no must_fix item, the call returns in its first iteration:
\* one call of the service, no refinement, and the input code returned unchanged.
C12_ConvergesInFirstIteration ==
    [][(/\ mode = "reflection_qa_pipeline"
        /\ pc = "critique"
        /\ obs.critique_calls = 0
        /\ Absent(refl.current_code) = {}
        /\ refl'.critique.set
        /\ refl'.critique.parsed
        /\ refl'.critique.has_quality
        /\ refl'.critique.overall_quality >= 85
        /\ refl'.critique.must_fix = <<>>)
       => /\ pc' = "reflected"
          /\ error' = "none"
          /\ obs'.critique_calls = 1
          /\ obs'.refine_calls = 0
          /\ refl'.current_code = refl.current_code]_vars

\* C12 witness: the scenario of the specification, quality 0.9 on code with both values
C12_Witness ==
    /\ mode = "reflection_qa_pipeline"
    /\ pc = "reflected"
    /\ obs.critique_calls = 1
    /\ obs.refine_calls = 0
    /\ refl.critique.parsed
    /\ refl.critique.overall_quality = 90
    /\ Len(variables) = 2
    /\ Absent(refl.current_code) = {}

\* validate_and_correct has returned to its caller
Validated == mode = "validate_and_correct" /\ pc = "validated"

\* C14: when the validation call raises or its reply holds no JSON object that parses,
\* validate_and_correct returns the identity: corrected_variables equal to the input map,
\* and no issue, no auto-corrected field, nothing to confirm; no error reaches the caller.
C14_FailedValidationIsIdentity ==
    (Validated /\ correction.llm_calls = 1
               /\ correction.reply.kind \in {"raises", "no_json", "bad_json"}) =>
        /\ correction.set
        /\ correction.corrected_variables = correction.variables
        /\ correction.issues = <<>>
        /\ correction.auto_corrected = <<>>
        /\ correction.needs_confirmation = <<>>
        /\ validator.issues = <<>>
        /\ error = "none"

\* C14 witness: a second call on the validator, with two variables, whose validation call
\* raised
C14_Witness ==
    /\ Validated
    /\ sessions = 2
    /\ correction.reply.kind = "raises"
    /\ Len(correction.variables) = 2

\* C15: validate_and_correct with an empty map returns empty corrected_variables, issues,
\* auto_corrected and needs_confirmation without calling the service, whatever the
\* resource type and whatever was validated before.
C15_EmptyMapNeedsNoCall ==
    (Validated /\ correction.variables = <<>>) =>
        /\ correction.set
        /\ correction.llm_calls = 0
        /\ correction.corrected_variables = <<>>
        /\ correction.issues = <<>>
        /\ correction.auto_corrected = <<>>
        /\ correction.needs_confirmation = <<>>

\* C15 witness: an empty map given to a validator that has served a call before
C15_Witness ==
    /\ Validated
    /\ sessions = 2
    /\ correction.variables = <<>>
    /\ correction.resource_type = "s3_bucket"

\* C16: for every field the reply judges invalid, a confidence of 0.8 or more puts the
\* field in auto_corrected and not in needs_confirmation, a lower or absent confidence puts
\* its issue in needs_confirmation and the field not in auto_corrected; either way an issue
\* is recorded and corrected_variables holds the corrected value for the field.
C16_ConfidenceDecidesTheList ==
    (Validated /\ correction.reply.kind = "json") =>
        \A i \in 1..Len(correction.reply.fields) :
            LET f == correction.reply.fields[i]
                conf == IF f.has_conf THEN f.conf ELSE 0
                original == IF f.field \in DictKeys(correction.variables)
                            THEN DictGet(correction.variables, f.field).value
                            ELSE StrVal(<<>>)
                corrected == IF f.has_corrected_value THEN f.corrected_value ELSE original
                queued == {correction.needs_confirmation[j].field :
                              j \in 1..Len(correction.needs_confirmation)}
                recorded == {correction.issues[j].field : j \in 1..Len(correction.issues)}
            IN (f.has_is_valid /\ ~f.is_valid) =>
                  /\ conf >= 80 => (f.field \in Range(correction.auto_corrected)
                                    /\ f.field \notin queued)
                  /\ conf < 80 => (f.field \in queued
                                   /\ f.field \notin Range(correction.auto_corrected))
                  /\ f.field \in recorded
                  /\ f.field \in DictKeys(correction.corrected_variables)
                  /\ DictGet(correction.corrected_variables, f.field).value = corrected

\* C16 witness: two invalid fields, one at confidence 0.8 and one below
C16_Witness ==
    /\ Validated
    /\ Len(correction.reply.fields) = 2
    /\ \E i, j \in 1..2 :
          /\ ~correction.reply.fields[i].is_valid /\ correction.reply.fields[i].conf = 80
          /\ ~correction.reply.fields[j].is_valid /\ correction.reply.fields[j].conf = 79
    /\ Len(correction.auto_corrected) = 1
    /\ Len(correction.needs_confirmation) = 1

\* C13 (as the specification states it; it fails): a raised text generation call is
\* recovered inside its stage, so no request of the pipeline ends with the error of the
\* service. Only the call of _llm_validate_all_variables stands inside a try.
C13_LLMFailureNeverPropagates ==
    mode = "pipeline" => ~(pc = "raised" /\ error = "LLMError")

\* the generation stages of a request have begun: validate_and_correct has returned
GenerationStarted ==
    /\ mode = "pipeline"
    /\ correction.set
    /\ pc \notin {"idle", "validating"}

\* C17 (as the specification states it; it fails): no confirmation step exists between
\* validate_and_correct and generate_with_agents, so every field queued in
\* needs_confirmation reaches generation with the value of the request.
C17_LowConfidenceNeedsConfirmation ==
    GenerationStarted =>
        \A i \in 1..Len(correction.needs_confirmation) :
            LET field == correction.needs_confirmation[i].field
            IN IF field \in DictKeys(correction.variables)
               THEN /\ field \in DictKeys(variables)
                    /\ DictGet(variables, field).value =
                           DictGet(correction.variables, field).value
               ELSE field \notin DictKeys(variables)

\* rerank_and_validate has returned
Reranked == mode = "rerank_and_validate" /\ pc = "reranked"

\* C18 (as the specification states it; it fails): the returned candidates are those with
\* the highest final scores, in non-increasing order of final score, ties in input order.
\* The list is sorted before security_validation changes the scores, and not again.
C18_TopFiveByFinalScore ==
    Reranked =>
        LET sel == rerank.selected
            all == rerank.validated
            chosen == {sel[i].id : i \in 1..Len(sel)}
        IN /\ \A i, j \in 1..Len(sel) :
                  i < j => \/ sel[i].score > sel[j].score
                           \/ sel[i].score = sel[j].score /\ sel[i].id < sel[j].id
           /\ \A k \in 1..Len(all) :
                  all[k].id \notin chosen =>
                      \A i \in 1..Len(sel) : sel[i].score >= all[k].score

\* C19: a call of rerank_and_validate that returns hands back min(5, len(input))
\* results, each an object of the input list with its content, none of them twice.
C19_ReturnsMinFiveOfInput ==
    Reranked =>
        LET sel == rerank.selected
            n == Len(rerank.input)
        IN /\ Len(sel) = (IF n < 5 THEN n ELSE 5)
           /\ \A i \in 1..Len(sel) :
                  /\ sel[i].id \in 1..n
                  /\ sel[i].content = rerank.input[sel[i].id].content
           /\ \A i, j \in 1..Len(sel) : i # j => sel[i].id # sel[j].id

\* C19 witness: six candidates went in and five came back
C19_Witness ==
    /\ Reranked
    /\ Len(rerank.input) = 6
    /\ Len(rerank.selected) = 5

\* the reply gives no score to blend: no JSON object in it, "scores" that is no list, or
\* an entry for one of the candidates that is no number
RelevanceReplyUnparsed ==
    \/ rerank.reply.kind \in {"no_json", "bad_json"}
    \/ rerank.reply.kind = "json" /\ rerank.reply.scores_kind = "other"
    \/ /\ rerank.reply.kind = "json"
       /\ rerank.reply.scores_kind = "list"
       /\ \E i \in 1..Len(rerank.reply.scores) :
             i <= Len(rerank.input) /\ ~rerank.reply.scores[i].num

\* C20 (as the specification states it; it fails): with a reply that cannot be parsed
\* into scores relevance_scoring returns the candidates in input order, every score
\* unchanged.  The return statement sorts in every case, and the entries before one that
\* is no number are blended.
C20_UnparsedReplyKeepsInput ==
    (Reranked /\ RelevanceReplyUnparsed) => rerank.scored = rerank.input

\* C21 (as the specification states it; it fails): a query of the index that fails for
\* one strategy does not abort multi_strategy_retrieve.  No query stands inside a try.
C21_QueryFailureDoesNotAbort ==
    (mode = "multi_strategy_retrieve" /\ retrieval.failed # "none") => pc # "raised"

\* multi_strategy_retrieve has returned
Retrieved == mode = "multi_strategy_retrieve" /\ pc = "retrieved"

\* C22: with an index that answers at most top_k matches, the list returned holds the
\* matches of the semantic query (at most 5), then those of the structural query (at most
\* 3), then those of the code query (at most 3), one result per match with the tag of its
\* strategy, a document once for every query that matched it; at most 11 in all.
C22_ConcatenatedByStrategy ==
    Retrieved =>
        LET matches(k) == IF retrieval.responses[k].has_matches
                          THEN retrieval.responses[k].matches ELSE <<>>
            a == Len(matches(1))
            b == Len(matches(2))
            c == Len(matches(3))
            res == retrieval.results
            tagged(r, m, tag) ==
                /\ r.strategy = tag
                /\ r.metadata = (IF m.has_metadata THEN <<m.id>> ELSE <<>>)
        IN /\ a <= 5 /\ b <= 3 /\ c <= 3
           /\ Len(res) = a + b + c
           /\ Len(res) <= 11
           /\ \A i \in 1..a : tagged(res[i], matches(1)[i], "semantic")
           /\ \A i \in 1..b : tagged(res[a + i], matches(2)[i], "structural")
           /\ \A i \in 1..c : tagged(res[a + b + i], matches(3)[i], "code")

\* C22 witness: eleven results, and document 1 in them once per strategy
C22_Witness ==
    /\ Retrieved
    /\ Len(retrieval.results) = 11
    /\ \A tag \in {"semantic", "structural", "code"} :
           \E i \in 1..11 : /\ retrieval.results[i].strategy = tag
                             /\ retrieval.results[i].metadata = <<1>>

\* test_terraform_code has handed control back, with a sandbox directory created
TestReturned ==
    /\ mode = "test_terraform_code"
    /\ \/ pc = "tested"
       \/ pc = "raised" /\ error # "OSError"

\* the positions of a command in the log of the sandbox
StepsOf(cmds) == {i \in 1..Len(sandbox.commands) : sandbox.commands[i].cmd \in cmds}

\* C23: once the sandbox directory exists, cleanup_sandbox has run exactly once when
\* test_terraform_code hands control back (result returned, or interrupt passed on), it is
\* the last step, and before that moment it has not run.
C23_CleanupExactlyOnce ==
    mode = "test_terraform_code" =>
        IF TestReturned
        THEN StepsOf({"cleanup"}) = {Len(sandbox.commands)}
        ELSE StepsOf({"cleanup"}) = {}

\* C23 witness: writing main.tf failed, the except clause built the result, cleanup ran
C23_Witness ==
    /\ TestReturned
    /\ sandbox.result.status = "error"
    /\ sandbox.commands[Len(sandbox.commands)].cmd = "cleanup"

\* C24: the scanners run only with run_security_scan set and a validation that is valid,
\* terraform plan only with generate_plan set and a validation that is valid, and a
\* result with an invalid validation has no scan and no plan output.
C24_ScansAndPlanNeedValidCode ==
    mode = "test_terraform_code" =>
        /\ StepsOf({"which tfsec", "tfsec", "which checkov", "checkov"}) # {} =>
               (sandbox.run_security_scan /\ sandbox.validation.set
                /\ sandbox.validation.valid)
        /\ StepsOf({"plan"}) # {} =>
               (sandbox.generate_plan /\ sandbox.validation.set /\ sandbox.validation.valid)
        /\ (sandbox.result.set /\ sandbox.result.status # "error"
            /\ ~sandbox.result.validation.valid) =>
               (sandbox.result.security_scans = <<>> /\ sandbox.result.plan_output = "None")

\* C24 witness: terraform validate found the code invalid with both flags set
C24_Witness ==
    /\ pc = "tested"
    /\ sandbox.run_security_scan /\ sandbox.generate_plan
    /\ \E i \in StepsOf({"validate"}) : sandbox.commands[i].out = "invalid_error"
    /\ ~sandbox.result.validation.valid
    /\ sandbox.result.status = "failed"

\* C25: after a terraform init that returned non-zero or timed out the validation is
\* invalid with init_success false and an init error, and no terraform validate, no
\* scanner and no terraform plan runs.
C25_InitFailureShortCircuits ==
    mode = "test_terraform_code" =>
        \A i \in StepsOf({"init"}) :
            sandbox.commands[i].code # 0 =>
                /\ sandbox.validation.set
                /\ ~sandbox.validation.valid
                /\ ~sandbox.validation.init_success
                /\ \E j \in 1..Len(sandbox.validation.errors) :
                       sandbox.validation.errors[j] \in
                           {"Terraform init failed: init error",
                            "Terraform init failed: Command timed out"}
                /\ StepsOf({"validate", "which tfsec", "tfsec", "which checkov",
                            "checkov", "plan"}) = {}

\* C25 witness: terraform init timed out and the test returned its result
C25_Witness ==
    /\ pc = "tested"
    /\ \E i \in StepsOf({"init"}) : sandbox.commands[i].code = TimedOut
    /\ sandbox.result.status = "failed"

\* C26: in a TestResult built without an exception overall_passed is validation.valid and
\* every recorded scan passed, status is success exactly then and failed otherwise,
\* whatever terraform plan did.
C26_OverallPassed ==
    (mode = "test_terraform_code" /\ sandbox.result.set
     /\ sandbox.result.status # "error") =>
        LET r == sandbox.result
            all_passed == \A i \in 1..Len(r.security_scans) : r.security_scans[i].passed
        IN /\ r.overall_passed = (r.validation.valid /\ all_passed)
           /\ r.status = (IF r.overall_passed THEN "success" ELSE "failed")

\* C26 witness: a scan failed on valid code whose plan was generated, the result is failed
C26_Witness ==
    /\ pc = "tested"
    /\ sandbox.result.validation.valid
    /\ \E i \in 1..Len(sandbox.result.security_scans) :
           ~sandbox.result.security_scans[i].passed
    /\ sandbox.result.plan_output = "plan"
    /\ sandbox.result.status = "failed"

\* C27 (as the specification states it; it fails): no command of the sandbox runs twice,
\* and a run of tfsec or checkov that timed out or wrote nothing to stdout leaves no scan
\* with passed = true in security_scans.  scan_with_checkov does not look at the return
\* code and reads an empty stdout as a summary without failed checks.
C27_TimedOutScanNeverPasses ==
    mode = "test_terraform_code" =>
        /\ \A i, j \in 1..Len(sandbox.commands) :
               i # j => sandbox.commands[i].cmd # sandbox.commands[j].cmd
        /\ \A i \in StepsOf({"tfsec", "checkov"}) :
               (sandbox.commands[i].code = TimedOut \/ sandbox.commands[i].out = "") =>
                   \A k \in 1..Len(sandbox.security_scans) :
                       sandbox.security_scans[k].scanner = sandbox.commands[i].cmd
                           => ~sandbox.security_scans[k].passed

\* the used flags of a tracker, key by key
FlagsOf(trk) ==
    [i \in 1..Len(trk.variable_usage_map) |->
        [key |-> trk.variable_usage_map[i].key, used |-> trk.variable_usage_map[i].used]]

\* C28: a check_usage_in_code that follows a check_usage_in_code of the same code, with
\* no add_variables between them, returns the same two lists and leaves every used flag.
C28_RepeatedCheckIsIdempotent ==
    [][(vt_op = "check" /\ vt_op' = "check" /\ vt_code' = vt_code) =>
          (vt_ret' = vt_ret /\ FlagsOf(vt') = FlagsOf(vt))]_vars

\* C28 witness: two checks of one code found a value on line 1 both times and another
\* value not at all
C28_Witness ==
    /\ vt_op = "check"
    /\ \E i \in 1..Len(vt.variable_usage_map) :
           vt.variable_usage_map[i].locations = <<1, 1>>
    /\ vt_ret.used # <<>>
    /\ vt_ret.unused # <<>>

\* every entry of the tracker is as add_variables left it
AllFresh(trk) ==
    \A i \in 1..Len(trk.variable_usage_map) :
        /\ ~trk.variable_usage_map[i].used
        /\ trk.variable_usage_map[i].locations = <<>>

C30_AddOverwritesAndKeeps ==
    [][vt_op' = "add" =>
          LET old == vt.variable_usage_map
              new == vt'.variable_usage_map
              given == {vt_arg'[i].key : i \in 1..Len(vt_arg')}
          IN /\ {new[j].key : j \in 1..Len(new)} =
                    {old[i].key : i \in 1..Len(old)} \cup given
             /\ \A j, k \in 1..Len(new) : j # k => new[j].key # new[k].key
             /\ \A i \in 1..Len(old) :
                    old[i].key \notin given => \E j \in 1..Len(new) : new[j] = old[i]
             /\ \A i \in 1..Len(vt_arg') :
                    \E j \in 1..Len(new) :
                        new[j] = [key |-> vt_arg'[i].key, value |-> vt_arg'[i].value,
                                  used |-> FALSE, locations |-> <<>>]]_vars

\* C30 witness: after add_variables a key outside the added map is still marked used
\* with its location, next to a key of the added map
C30_Witness ==
    /\ vt_op = "add"
    /\ vt_arg # <<>>
    /\ \E i \in 1..Len(vt.variable_usage_map) :
           /\ vt.variable_usage_map[i].used
           /\ vt.variable_usage_map[i].locations # <<>>
           /\ \A j \in 1..Len(vt_arg) : vt_arg[j].key # vt.variable_usage_map[i].key

\* C31 (as the specification states it; it fails): after rerank_and_validate the
\* RetrievalResult records of the list the retriever returned hold the scores they had.
\* relevance_scoring and security_validation assign to result.score of those records.
C31_RerankLeavesRetrievedScores ==
    Reranked =>
        \A i \in 1..Len(rerank.input) :
            /\ rerank.objects[i].id = rerank.input[i].id
            /\ rerank.objects[i].score = rerank.input[i].score

\* C32 (as the specification states it; it fails): after every check_usage_in_code,
\* whatever went before it, the locations of a key are exactly the numbers of the lines
\* of the code just checked that contain its value, each once and ascending, and a key
\* the check reports as unused has no locations.  The code appends to the locations of
\* the checks before and never empties them.
C32_LocationsAreOfTheCheckedCode ==
    vt_op = "check" =>
        \A i \in 1..Len(vt.variable_usage_map) :
            LET e == vt.variable_usage_map[i]
            IN e.locations =
                   (IF IsSubstr(PyStr(e.value), vt_code)
                    THEN LinesWith(PyStr(e.value), SplitLines(vt_code), 1)
                    ELSE <<>>)

\* an iteration of the reflection loop has just ended without convergence and without a
\* refinement prompt: its critique is still the current one (Refine clears it)
IterationWithoutRefinement ==
    /\ mode = "reflection_qa_pipeline"
    /\ pc \in {"critique", "reflected"}
    /\ refl.critique.set
    /\ ~obs.converged

\* C33 (as the specification states it; it fails): an iteration that does not converge
\* and whose critique has must-fix items, or whose code misses variables, sends the
\* refinement prompt; so an iteration that ended without one had neither.  With every
\* variable present iterative_refinement returns before its prompt.
C33_MustFixIsRefined ==
    IterationWithoutRefinement =>
        /\ refl.critique.must_fix = <<>>
        /\ refl.critique.all_variables_used

\* the entries of the variables map whose value, as str prints it, is not in the code
MissingFrom(code) ==
    SelectSeq(variables, LAMBDA e : ~IsSubstr(PyStr(e.value), code))

\* C34: a critique whose reply does not parse is the fallback critique: overall_quality
\* 0.4 and all_variables_used false when a variable is unused, 0.8 and true when none
\* is, and must_fix holds exactly one "Add" entry per unused variable, in the order of
\* the map, naming its key and value.
C34_FallbackCritique ==
    (refl.critique.set /\ ~refl.critique.parsed) =>
        LET c == refl.critique
            missing == MissingFrom(refl.current_code)
        IN /\ c.has_quality
           /\ c.overall_quality = (IF missing # <<>> THEN 40 ELSE 80)
           /\ c.all_variables_used = (missing = <<>>)
           /\ Len(c.must_fix) = Len(missing)
           /\ \A i \in 1..Len(missing) :
                  c.must_fix[i] = [kind |-> "Add", var |-> missing[i].key,
                                   value |-> missing[i].value]

\* C34 witness: an unparseable critique of a code that lacks both of two variables
C34_Witness ==
    /\ refl.critique.set /\ ~refl.critique.parsed
    /\ Len(variables) = 2
    /\ Len(refl.critique.must_fix) = 2
    /\ refl.critique.overall_quality = 40

\* C34 witness of the other branch: an unparseable critique of a code that lacks nothing
C34_WitnessAllUsed ==
    /\ refl.critique.set /\ ~refl.critique.parsed
    /\ variables # <<>>
    /\ refl.critique.must_fix = <<>>
    /\ refl.critique.overall_quality = 80

\* how often the message of the format check stands in a list of messages
FormatMessages(seq) ==
    Cardinality({j \in 1..Len(seq) : seq[j] = "Code is not properly formatted"})

\* C35: a terraform fmt -check that returned non-zero or timed out is not fatal: the
\* validation has format_valid false and the format message once among its warnings and
\* not among its errors, terraform init runs next and terraform validate after an init
\* that succeeded, and valid is what init and validate alone make it.
C35_FormatFailureIsAWarning ==
    mode = "test_terraform_code" =>
        \A i \in StepsOf({"fmt"}) :
            sandbox.commands[i].code # 0 =>
                LET v == sandbox.validation
                    cmds == sandbox.commands
                    follows(k, cmd) ==
                        (Len(cmds) > k /\ cmds[k + 1].cmd # "cleanup") => cmds[k + 1].cmd = cmd
                IN /\ ~v.format_valid
                   /\ FormatMessages(v.warnings) = 1
                   /\ FormatMessages(v.errors) = 0
                   /\ follows(i, "init")
                   /\ (Len(cmds) > i /\ cmds[i + 1].cmd = "init" /\ cmds[i + 1].code = 0)
                          => follows(i + 1, "validate")
                   /\ v.set =>
                          (v.valid <=>
                              \E b \in StepsOf({"validate"}) :
                                  \/ cmds[b].out \in {"valid", "valid_warning"}
                                  \/ cmds[b].out \in {"", "garbage"} /\ cmds[b].code = 0)
                   /\ (sandbox.result.set /\ sandbox.result.status # "error") =>
                          sandbox.result.validation = v /\ v.set

\* C35 witness: the code was not formatted, init and validate ran, and the test passed
\* with the one warning
C35_Witness ==
    /\ pc = "tested"
    /\ \E i \in StepsOf({"fmt"}) : sandbox.commands[i].code = 3
    /\ StepsOf({"init"}) # {} /\ StepsOf({"validate"}) # {}
    /\ sandbox.result.status = "success"
    /\ sandbox.result.validation.warnings = <<"Code is not properly formatted">>

\* the recorded scans of a scanner
ScansOf(scans, scanner) == {k \in 1..Len(scans) : scans[k].scanner = scanner}

\* the step after step k of the log, the cleanup aside, is a step of cmd
NextStepIs(k, cmd) ==
    (Len(sandbox.commands) > k /\ sandbox.commands[k + 1].cmd # "cleanup")
        => sandbox.commands[k + 1].cmd = cmd

\* C36: a scanner whose "which" returned non-zero is skipped: its command is not run and
\* no scan of it is recorded; the other scanner is still looked for and terraform plan
\* still runs when asked for; and the absence lowers nothing: the result passes when
\* the scans that were recorded passed, and with both scanners absent it is a success
\* without scans.
C36_AbsentScannerIsSkipped ==
    mode = "test_terraform_code" =>
        LET cmds == sandbox.commands
            r == sandbox.result
            absent(which) == \E i \in StepsOf({which}) : cmds[i].code # 0
        IN /\ \A i \in StepsOf({"which tfsec"}) :
                  cmds[i].code # 0 =>
                      /\ StepsOf({"tfsec"}) = {}
                      /\ ScansOf(sandbox.security_scans, "tfsec") = {}
                      /\ NextStepIs(i, "which checkov")
           /\ \A i \in StepsOf({"which checkov"}) :
                  cmds[i].code # 0 =>
                      /\ StepsOf({"checkov"}) = {}
                      /\ ScansOf(sandbox.security_scans, "checkov") = {}
                      /\ IF sandbox.generate_plan THEN NextStepIs(i, "plan")
                         ELSE NextStepIs(i, "cleanup")
           /\ (r.set /\ r.status # "error" /\ absent("which tfsec")) =>
                  /\ ScansOf(r.security_scans, "tfsec") = {}
                  /\ r.overall_passed =
                         (\A k \in ScansOf(r.security_scans, "checkov") :
                              r.security_scans[k].passed)
           /\ (r.set /\ r.status # "error" /\ absent("which checkov")) =>
                  /\ ScansOf(r.security_scans, "checkov") = {}
                  /\ r.overall_passed =
                         (\A k \in ScansOf(r.security_scans, "tfsec") :
                              r.security_scans[k].passed)
           /\ (r.set /\ r.status # "error" /\ absent("which tfsec")
               /\ absent("which checkov")) =>
                  (r.security_scans = <<>> /\ r.status = "success")

\* C36 witness: tfsec is not installed, checkov is and found nothing, the plan was
\* generated and the test passed with the one scan
C36_Witness ==
    /\ pc = "tested"
    /\ \E i \in StepsOf({"which tfsec"}) : sandbox.commands[i].code = 1
    /\ StepsOf({"checkov"}) # {} /\ StepsOf({"plan"}) # {}
    /\ Len(sandbox.result.security_scans) = 1
    /\ sandbox.result.status = "success"

\* a call of security_validation has returned
Secured == mode = "security_validation" /\ pc = "secured"

\* the words of a content, as the tests of security_validation see them
WordsOf(content) == {Lower(content[k]) : k \in 1..Len(content)}

\* 1.0 and the four adjustments, in tenths, added up for a content
FactorTenths(content) ==
    LET w == WordsOf(content)
    IN 10 + (IF w \cap {"hardcoded", "password"} # {} THEN 0 - 3 ELSE 0)
          + (IF {"public", "bucket"} \subseteq w THEN 0 - 2 ELSE 0)
          + (IF w \cap {"encryption", "kms"} # {} THEN 1 ELSE 0)
          + (IF w \cap {"iam", "policy"} # {} THEN 1 ELSE 0)

\* C37 (amended): security_validation multiplies every score by 1.0 plus the sum of the
\* adjustments -0.3, -0.2, +0.1, +0.1 that apply to the content, without a clamp: the
\* factor goes above 1.0, up to 1.2, and down to 0.5 when both penalties stack, and it
\* is never negative or zero, so a positive score stays positive.
C37_FactorIsSumAndPositive ==
    Secured =>
        /\ Len(rerank.validated) = Len(rerank.input)
        /\ \A i \in 1..Len(rerank.input) :
               LET before == rerank.input[i]
                   after == rerank.validated[i]
               IN /\ after.id = before.id
                  /\ 10 * after.score = before.score * FactorTenths(before.content)
                  /\ 10 * after.score >= 5 * before.score
                  /\ 10 * after.score <= 12 * before.score
                  /\ after.score > 0

\* C37 witness: a content with both penalties and no bonus had its score halved, and a
\* content with both bonuses and no penalty had it raised by a fifth
C37_Witness ==
    /\ Secured
    /\ Len(rerank.input) = 2
    /\ rerank.input[1].content = ContentOf(TRUE, TRUE, FALSE, FALSE)
    /\ 2 * rerank.validated[1].score = rerank.input[1].score
    /\ rerank.input[2].content = ContentOf(FALSE, FALSE, TRUE, TRUE)
    /\ 10 * rerank.validated[2].score = 12 * rerank.input[2].score

\* C37 (as the specification states it; it fails): the factor becomes negative when the
\* penalties stack.  The factor is smallest for a content that draws both penalties and
\* no bonus, so the statement is true exactly if the score of such a content turns
\* negative; it is half the score it was.
C37_StackedPenaltiesTurnNegative ==
    Secured =>
        \A i \in 1..Len(rerank.input) :
            rerank.input[i].content = ContentOf(TRUE, TRUE, FALSE, FALSE) =>
                rerank.validated[i].score < 0

\* C38 (as the specification states it; it fails): when the validation reply parses,
\* corrected_variables has every key of the map validate_and_correct was given.  The map
\* starts from the "corrected_variables" of the reply when the reply has one, and only
\* the fields the reply judges get a value of their own.
C38_CorrectedKeepsEveryKey ==
    (Validated /\ correction.llm_calls = 1 /\ correction.reply.kind = "json") =>
        DictKeys(correction.variables) \subseteq DictKeys(correction.corrected_variables)

\* C39: an iteration whose critique reply does not parse never ends the loop by
\* convergence: the loop goes on to the next iteration and ends only with the last of
\* its max_iterations; and when the code holds every value, the iteration sends no
\* refinement prompt and leaves the code as it is.  So with unparseable critiques
\* throughout, all max_iterations critique calls are made and the input code is returned.
C39_UnparsedCritiqueNeverConverges ==
    [][(/\ mode = "reflection_qa_pipeline"
        /\ pc = "critique"
        /\ obs'.critique_calls = obs.critique_calls + 1
        /\ ~refl'.critique.parsed) =>
          /\ ~obs'.converged
          /\ pc' \in {"critique", "refine", "reflected"}
          /\ pc' = "reflected" => refl'.iteration = refl.max_iterations
          /\ pc' = "critique" => refl'.iteration = refl.iteration + 1
          /\ MissingFrom(refl.current_code) = <<>> =>
                 /\ pc' # "refine"
                 /\ refl'.iteration = refl.iteration + 1
                 /\ obs'.refine_calls = obs.refine_calls
                 /\ refl'.current_code = refl.current_code]_vars

\* C39 witness: four iterations on a code that holds the value, the last critique
\* unparseable like those before it, no refinement call, no convergence
C39_Witness ==
    /\ mode = "reflection_qa_pipeline"
    /\ pc = "reflected"
    /\ variables # <<>>
    /\ refl.max_iterations = 4
    /\ obs.critique_calls = 4
    /\ obs.refine_calls = 0
    /\ ~obs.converged
    /\ refl.critique.set /\ ~refl.critique.parsed
    /\ refl.critique.overall_quality = 80

\* C40: when a statement of test_terraform_code raises an Exception after the sandbox was
\* created, the call returns instead of raising: a TestResult with status "error", no
\* validation, no scans, no plan output and overall_passed false, whatever the phases
\* before had produced; and in every TestResult returned overall_passed implies status
\* "success" and a valid validation.
C40_ExceptionGivesErrorResult ==
    (mode = "test_terraform_code" /\ pc \in {"tested", "raised"}) =>
        LET r == sandbox.result
        IN /\ sandbox.raised = "Exception" =>
                  /\ pc = "tested" /\ error = "none"
                  /\ r.set
                  /\ r.status = "error"
                  /\ r.validation = NoValidation
                  /\ r.security_scans = <<>>
                  /\ r.plan_output = "None"
                  /\ ~r.overall_passed
           /\ r.set =>
                  (r.overall_passed =>
                      (r.status = "success" /\ r.validation.set /\ r.validation.valid))
           /\ pc = "tested" => r.set

\* C40 witness: an exception after the validation and a scan had been done; the result
\* returned is the error result and holds neither
C40_Witness ==
    /\ pc = "tested"
    /\ sandbox.raised = "Exception"
    /\ sandbox.validation.set /\ sandbox.validation.valid
    /\ sandbox.security_scans # <<>>
    /\ sandbox.result.status = "error"
    /\ sandbox.result.security_scans = <<>>

====
